---------------------------- MODULE Spec2Model ----------------------------
(***************************************************************************)
(* A model of the Intervals.icu MCP server                                 *)
(* (src/src/intervals_mcp_server/server.py and utils/formatting.py).       *)
(*                                                                         *)
(* Python values are tagged records: None/null, bool, int, str, list and   *)
(* dict (an insertion-ordered sequence of <<key, value>> pairs).  Strings  *)
(* are TLA+ strings, f-strings are concatenations.  The HTTP Request       *)
(* Gateway (make_intervals_request) is an operator of the transport        *)
(* outcome; every tool handler is a step operator that runs the code       *)
(* between two awaits of the gateway.                                      *)
(***************************************************************************)
EXTENDS Integers, Sequences, FiniteSets, TLC

VARIABLES
    API_KEY,      \* server.py:117, module global
    ATHLETE_ID,   \* server.py:118, module global
    gw,           \* the last direct call of make_intervals_request (SpecGateway)
    pc,           \* "idle" | "awaiting" | "done": where the handler invocation is
    inv,          \* the running invocation: the tool and its arguments
    locals,       \* the handler's local variables at its suspension point
    pending,      \* the gateway call the handler is awaiting
    calls,        \* the gateway calls the invocation has made, in order
    ret,          \* what the invocation returned or raised
    tasks,        \* the invocations that run concurrently (SpecConcurrent)
    fn_in,        \* the argument of a pure function under check
    fn_out        \* its result

cfgvars == <<API_KEY, ATHLETE_ID>>
gwvars == <<gw>>
hvars == <<pc, inv, locals, pending, calls, ret, tasks>>
fnvars == <<fn_in, fn_out>>
vars == <<API_KEY, ATHLETE_ID, gw, pc, inv, locals, pending, calls, ret, tasks, fn_in, fn_out>>

-----------------------------------------------------------------------------
(* Python values *)

PyNone == [t |-> "null"]
PyBool(b) == [t |-> "bool", v |-> b]
PyInt(n) == [t |-> "int", v |-> n]
PyStr(s) == [t |-> "str", v |-> s]
PyList(s) == [t |-> "list", v |-> s]
PyDict(s) == [t |-> "dict", v |-> s]

IsNone(x) == x.t = "null"
IsStr(x) == x.t = "str"
IsList(x) == x.t = "list"
IsDict(x) == x.t = "dict"

\* bool(x): None, False, 0, "", [] and {} are falsy
Truthy(x) ==
    CASE x.t = "null" -> FALSE
      [] x.t = "bool" -> x.v
      [] x.t = "int" -> x.v # 0
      [] x.t = "str" -> x.v # ""
      [] x.t = "list" -> Len(x.v) > 0
      [] x.t = "dict" -> Len(x.v) > 0

\* key in d
HasKey(d, k) == \E i \in 1..Len(d.v) : d.v[i][1] = k

\* d.get(k, default)
GetOr(d, k, default) ==
    IF HasKey(d, k)
    THEN d.v[CHOOSE i \in 1..Len(d.v) : d.v[i][1] = k][2]
    ELSE default

\* d.get(k)
Get(d, k) == GetOr(d, k, PyNone)

\* [x for x in s if isinstance(x, dict)]
RECURSIVE OnlyDicts(_)
OnlyDicts(s) ==
    IF s = <<>> THEN <<>>
    ELSE IF IsDict(s[1]) THEN <<s[1]>> \o OnlyDicts(Tail(s))
    ELSE OnlyDicts(Tail(s))

RECURSIVE JoinStr(_, _)
JoinStr(s, sep) ==
    IF s = <<>> THEN ""
    ELSE IF Len(s) = 1 THEN s[1]
    ELSE s[1] \o sep \o JoinStr(Tail(s), sep)

RECURSIVE Spaces(_)
Spaces(n) == IF n <= 0 THEN "" ELSE " " \o Spaces(n - 1)

StartsWith(s, p) == Len(s) >= Len(p) /\ SubSeq(s, 1, Len(p)) = p

\* json.dumps(x) for indent = -1 (no indent) and json.dumps(x, indent=n) for
\* n >= 0, at nesting level lvl.  The strings of the model need no escaping.
RECURSIVE json_dumps_at(_, _, _)
json_dumps_at(x, indent, lvl) ==
    LET nl(l) == IF indent < 0 THEN "" ELSE "\n" \o Spaces(indent * l)
        sep == IF indent < 0 THEN ", " ELSE "," \o nl(lvl + 1)
        item(i) == json_dumps_at(x.v[i], indent, lvl + 1)
        pair(i) == "\"" \o x.v[i][1] \o "\": " \o json_dumps_at(x.v[i][2], indent, lvl + 1)
    IN CASE x.t = "null" -> "null"
         [] x.t = "bool" -> IF x.v THEN "true" ELSE "false"
         [] x.t = "int" -> ToString(x.v)
         [] x.t = "str" -> "\"" \o x.v \o "\""
         [] x.t = "list" ->
                IF x.v = <<>> THEN "[]"
                ELSE "[" \o nl(lvl + 1) \o JoinStr([i \in 1..Len(x.v) |-> item(i)], sep)
                         \o nl(lvl) \o "]"
         [] x.t = "dict" ->
                IF x.v = <<>> THEN "{}"
                ELSE "{" \o nl(lvl + 1) \o JoinStr([i \in 1..Len(x.v) |-> pair(i)], sep)
                         \o nl(lvl) \o "}"

json_dumps(x) == json_dumps_at(x, -1, 0)

json_dumps_indent(x, indent) == json_dumps_at(x, indent, 0)

\* str(x) / repr(x) of a value inside an f-string: a str nested in a list or
\* dict shows in single quotes, a top-level str as it is
RECURSIVE py_repr(_)
py_repr(x) ==
    CASE x.t = "null" -> "None"
      [] x.t = "bool" -> IF x.v THEN "True" ELSE "False"
      [] x.t = "int" -> ToString(x.v)
      [] x.t = "str" -> "'" \o x.v \o "'"
      [] x.t = "list" -> "[" \o JoinStr([i \in 1..Len(x.v) |-> py_repr(x.v[i])], ", ") \o "]"
      [] x.t = "dict" ->
             "{" \o JoinStr([i \in 1..Len(x.v) |->
                               "'" \o x.v[i][1] \o "': " \o py_repr(x.v[i][2])], ", ") \o "}"

py_str(x) == IF x.t = "str" THEN x.v ELSE py_repr(x)

-----------------------------------------------------------------------------
(* Sample upstream payloads *)

Dict1(k, v) == PyDict(<< <<k, v>> >>)

ActMorning == PyDict(<< <<"id", PyInt(1)>>, <<"name", PyStr("Morning Ride")>> >>)
ActEvening == PyDict(<< <<"id", PyInt(2)>>, <<"name", PyStr("Evening Run")>> >>)
ActUnnamed == PyDict(<< <<"id", PyInt(3)>>, <<"name", PyStr("Unnamed")>> >>)
ActNoName == PyDict(<< <<"id", PyInt(4)>> >>)
ActEmptyName == PyDict(<< <<"id", PyInt(5)>>, <<"name", PyStr("")>> >>)
ActNullName == PyDict(<< <<"id", PyInt(6)>>, <<"name", PyNone>> >>)

EvWorkout == PyDict(<< <<"id", PyInt(11)>>, <<"category", PyStr("WORKOUT")>>,
                       <<"name", PyStr("Intervals")>> >>)
EvRaceShared == PyDict(<< <<"id", PyInt(12)>>, <<"category", PyStr("RACE_A")>>,
                          <<"shared_event_id", PyInt(77)>> >>)
EvRacePlain == PyDict(<< <<"id", PyInt(13)>>, <<"category", PyStr("RACE_B")>> >>)

\* every JSON value an upstream body of the model can decode to
JsonUniverse ==
    { PyNone,
      PyList(<<>>),
      PyDict(<<>>),
      PyList(<<ActMorning>>),
      PyList(<<ActMorning, ActUnnamed>>),
      PyList(<<ActMorning, ActEvening, ActMorning>>),
      PyList(<<ActNoName, ActEmptyName>>),
      PyList(<<ActNullName>>),
      PyList(<<PyInt(5)>>),
      PyDict(<< <<"name", PyStr("Solo")>>, <<"distance", PyInt(10)>>, <<"type", PyStr("Ride")>> >>),
      PyDict(<< <<"name", PyStr("Solo")>>, <<"laps", PyList(<<Dict1("lap", PyInt(1))>>)>> >>),
      Dict1("activities", PyList(<<ActUnnamed, ActEvening>>)),
      Dict1("id", PyInt(12345)),
      Dict1("error", PyStr("quota")),
      Dict1("icu_intervals", PyList(<<Dict1("label", PyStr("Rep 1"))>>)),
      Dict1("list", PyList(<<Dict1("secs", PyInt(5))>>)),
      Dict1("2024-01-01", Dict1("ctl", PyInt(75))),
      PyList(<<EvWorkout, EvRaceShared>>),
      PyList(<<EvRacePlain>>) }

\* bodies that are not JSON
NonJsonTexts == {"<html>Unauthorized</html>", "Bad Gateway"}

\* response.json(): json.loads of the body's text
json_loads(text) ==
    IF \E j \in JsonUniverse : json_dumps(j) = text
    THEN [ok |-> TRUE, v |-> CHOOSE j \in JsonUniverse : json_dumps(j) = text]
    ELSE [ok |-> FALSE, v |-> PyNone]

-----------------------------------------------------------------------------
(* The HTTP Request Gateway *)

INTERVALS_API_BASE_URL == "https://intervals.icu/api/v1"

USER_AGENT == "intervalsicu-mcp-server/1.0"

\* the classes of httpx's and json's exceptions, each with its base class
ExcBase(cls) ==
    CASE cls = "ConnectError" -> "RequestError"
      [] cls = "ReadTimeout" -> "RequestError"
      [] cls = "RequestError" -> "HTTPError"
      [] cls = "HTTPStatusError" -> "HTTPError"
      [] cls = "HTTPError" -> "Exception"
      [] cls = "JSONDecodeError" -> "ValueError"
      [] OTHER -> "Exception"

RECURSIVE IsInstance(_, _)
IsInstance(cls, base) ==
    \/ cls = base
    \/ cls # "Exception" /\ IsInstance(ExcBase(cls), base)

Return(v) == [k |-> "return", v |-> v]
Raise(cls, msg) == [k |-> "raise", exc |-> cls, msg |-> msg]

\* the members of http.HTTPStatus the model's responses use, with their phrases
HTTPStatusPhrase(code) ==
    CASE code = 200 -> "OK"
      [] code = 201 -> "Created"
      [] code = 401 -> "Unauthorized"
      [] code = 403 -> "Forbidden"
      [] code = 404 -> "Not Found"
      [] code = 418 -> "I'm a Teapot"
      [] code = 422 -> "Unprocessable Entity"
      [] code = 429 -> "Too Many Requests"
      [] code = 500 -> "Internal Server Error"
      [] code = 503 -> "Service Unavailable"
      [] OTHER -> ""

IsHTTPStatus(code) == HTTPStatusPhrase(code) # ""

_get_error_message(error_code, error_text) ==
    LET head == ToString(error_code) \o " " \o HTTPStatusPhrase(error_code) \o ": "
    IN IF ~IsHTTPStatus(error_code) THEN error_text
       ELSE CASE error_code = 401 -> head \o "Please check your API key."
              [] error_code = 403 -> head \o "You may not have permission to access this resource."
              [] error_code = 404 -> head \o "The requested endpoint or ID doesn't exist."
              [] error_code = 422 -> head \o "The server couldn't process the request (invalid parameters or unsupported operation)."
              [] error_code = 429 -> head \o "Too many requests in a short time period."
              [] error_code = 500 -> head \o "The Intervals.icu server encountered an internal error."
              [] error_code = 503 -> head \o "The Intervals.icu server might be down or undergoing maintenance."
              [] OTHER -> error_text

ErrorRecord(message) ==
    PyDict(<< <<"error", PyBool(TRUE)>>, <<"message", PyStr(message)>> >>)

StatusErrorRecord(error_code, message) ==
    PyDict(<< <<"error", PyBool(TRUE)>>, <<"status_code", PyInt(error_code)>>,
              <<"message", PyStr(message)>> >>)

\* faulty variant: an empty api_key falls back to API_KEY (api_key or API_KEY)
resolve_api_key_falsy(api_key) == IF Truthy(api_key) THEN api_key ELSE PyStr(API_KEY)

\* key_to_use = api_key if api_key is not None else API_KEY
resolve_api_key(api_key) == IF ~IsNone(api_key) THEN api_key ELSE PyStr(API_KEY)

\* faulty variant: every method is taken to have a body
has_body_always(method) == TRUE

\* has_body = method in ["POST", "PUT"]
has_body(method) == method \in {"POST", "PUT"}

request_headers(method) ==
    << <<"User-Agent", USER_AGENT>>, <<"Accept", "application/json">> >>
    \o (IF has_body(method) THEN << <<"Content-Type", "application/json">> >> ELSE <<>>)

\* the arguments of httpx_client.request
http_request(url, key_to_use, params, method, data) ==
    [ method |-> method,
      url |-> INTERVALS_API_BASE_URL \o url,
      headers |-> request_headers(method),
      params |-> params,
      auth |-> <<"API_KEY", key_to_use.v>>,
      timeout |-> 30,
      content |-> IF has_body(method) /\ ~IsNone(data) THEN PyStr(json_dumps(data)) ELSE PyNone ]

\* faulty variant: the last clause, except httpx.HTTPError, is missing
gateway_except_no_httperror(e) ==
    IF IsInstance(e.exc, "HTTPStatusError")
    THEN Return(StatusErrorRecord(e.status, _get_error_message(e.status, e.text)))
    ELSE IF IsInstance(e.exc, "RequestError")
    THEN Return(ErrorRecord("Request error: " \o e.msg))
    ELSE Raise(e.exc, e.msg)

\* the except clauses of the gateway's try, in order; an exception that no
\* clause matches leaves the gateway
gateway_except(e) ==
    IF IsInstance(e.exc, "HTTPStatusError")
    THEN Return(StatusErrorRecord(e.status, _get_error_message(e.status, e.text)))
    ELSE IF IsInstance(e.exc, "RequestError")
    THEN Return(ErrorRecord("Request error: " \o e.msg))
    ELSE IF IsInstance(e.exc, "HTTPError")
    THEN Return(ErrorRecord("HTTP client error: " \o e.msg))
    ELSE Raise(e.exc, e.msg)

\* response.raise_for_status()
raises_for_status(status) == ~(200 <= status /\ status <= 299)

\* the body of the gateway's try for one transport outcome: a response
\* [k |-> "response", status, content] or an exception raised by the client
gateway_try(outcome) ==
    IF outcome.k = "raise"
    THEN gateway_except([exc |-> outcome.exc, msg |-> outcome.msg, status |-> 0, text |-> ""])
    ELSE LET decoded == IF outcome.content # "" THEN json_loads(outcome.content)
                        ELSE [ok |-> TRUE, v |-> PyDict(<<>>)]
         IN IF ~decoded.ok
            THEN Return(ErrorRecord("Invalid JSON in response"))
            ELSE IF raises_for_status(outcome.status)
            THEN gateway_except([exc |-> "HTTPStatusError", msg |-> "", status |-> outcome.status,
                                 text |-> outcome.content])
            ELSE Return(decoded.v)

\* make_intervals_request: what it sends (no or one HTTP request) and how it ends
make_intervals_request(url, api_key, params, method, data, outcome) ==
    LET key_to_use == resolve_api_key(api_key)
    IN IF ~Truthy(key_to_use)
       THEN [sent |-> <<>>,
             out |-> Return(ErrorRecord("API key is required. Set API_KEY env var or pass api_key"))]
       ELSE [sent |-> <<http_request(url, key_to_use, params, method, data)>>,
             out |-> gateway_try(outcome)]

Response(status, content) == [k |-> "response", status |-> status, content |-> content]
ClientRaises(cls, msg) == [k |-> "raise", exc |-> cls, msg |-> msg]

GatewayStatuses == {200, 201, 401, 403, 404, 418, 422, 429, 500, 503, 599}

GatewayContents == {""} \cup NonJsonTexts \cup {json_dumps(j) : j \in JsonUniverse}

ClientFailures ==
    { ClientRaises("ConnectError", "All connection attempts failed"),
      ClientRaises("ReadTimeout", "timed out"),
      ClientRaises("HTTPError", "client failure") }

GatewayOutcomes ==
    {Response(s, c) : s \in GatewayStatuses, c \in GatewayContents} \cup ClientFailures

Unused == [k |-> "unused"]

GatewayData == {PyNone, Dict1("name", PyStr("Test Workout"))}

GatewayCall ==
    \E api_key \in {PyNone, PyStr(""), PyStr("k2")},
       method \in {"GET", "POST", "PUT", "DELETE"},
       data \in GatewayData,
       outcome \in GatewayOutcomes :
        LET r == make_intervals_request("/athlete/i1/events", api_key, PyNone, method, data, outcome)
        IN /\ gw = Unused
           /\ gw' = [url |-> "/athlete/i1/events", api_key |-> api_key, method |-> method,
                     data |-> data, outcome |-> outcome, sent |-> r.sent, out |-> r.out]
           /\ UNCHANGED <<cfgvars, hvars, fnvars>>

\* the number of invocations that may run at the same time
NumTasks == 2

TaskIds == 1..NumTasks

\* an invocation that has not been made: the fields are those of the
\* variables pc, inv, locals, pending, calls and ret
IdleTask ==
    [pc |-> "idle", inv |-> Unused, locals |-> Unused, pending |-> Unused, calls |-> <<>>,
     ret |-> Unused]

HandlersIdle ==
    /\ pc = "idle"
    /\ inv = Unused
    /\ locals = Unused
    /\ pending = Unused
    /\ calls = <<>>
    /\ ret = Unused
    /\ tasks = [i \in TaskIds |-> IdleTask]

\* the module does not load with an empty API_KEY or a malformed ATHLETE_ID
InitGateway ==
    /\ API_KEY = "test"
    /\ ATHLETE_ID = "i1"
    /\ gw = Unused
    /\ HandlersIdle
    /\ fn_in = Unused
    /\ fn_out = Unused

\* the caller takes the result; the gateway keeps no state between calls
GatewayDone ==
    /\ gw # Unused
    /\ gw' = Unused
    /\ UNCHANGED <<cfgvars, hvars, fnvars>>

NextGateway == GatewayCall \/ GatewayDone

SpecGateway == InitGateway /\ [][NextGateway]_vars

-----------------------------------------------------------------------------
(* Strings and dates *)

Char(s, i) == SubSeq(s, i, i)

\* sub in s
Contains(s, sub) ==
    \E i \in 1..(Len(s) - Len(sub) + 1) : SubSeq(s, i, i + Len(sub) - 1) = sub

LowerChar(c) ==
    CASE c = "A" -> "a" [] c = "B" -> "b" [] c = "C" -> "c" [] c = "D" -> "d"
      [] c = "E" -> "e" [] c = "F" -> "f" [] c = "G" -> "g" [] c = "H" -> "h"
      [] c = "I" -> "i" [] c = "J" -> "j" [] c = "K" -> "k" [] c = "L" -> "l"
      [] c = "M" -> "m" [] c = "N" -> "n" [] c = "O" -> "o" [] c = "P" -> "p"
      [] c = "Q" -> "q" [] c = "R" -> "r" [] c = "S" -> "s" [] c = "T" -> "t"
      [] c = "U" -> "u" [] c = "V" -> "v" [] c = "W" -> "w" [] c = "X" -> "x"
      [] c = "Y" -> "y" [] c = "Z" -> "z" [] OTHER -> c

\* s.lower()
RECURSIVE Lower(_)
Lower(s) == IF s = "" THEN "" ELSE LowerChar(Char(s, 1)) \o Lower(SubSeq(s, 2, Len(s)))

DigitVal(c) ==
    CASE c = "0" -> 0 [] c = "1" -> 1 [] c = "2" -> 2 [] c = "3" -> 3 [] c = "4" -> 4
      [] c = "5" -> 5 [] c = "6" -> 6 [] c = "7" -> 7 [] c = "8" -> 8 [] c = "9" -> 9
      [] OTHER -> -1

IsDigits(s) == Len(s) > 0 /\ \A i \in 1..Len(s) : DigitVal(Char(s, i)) >= 0

RECURSIVE ToInt(_)
ToInt(s) ==
    IF s = "" THEN 0
    ELSE ToInt(SubSeq(s, 1, Len(s) - 1)) * 10 + DigitVal(Char(s, Len(s)))

\* n in decimal, zero-padded to w digits
Pad(n, w) == LET t == ToString(n) IN
    IF Len(t) >= w THEN t ELSE SubSeq("0000", 1, w - Len(t)) \o t

IsLeap(y) == (y % 4 = 0 /\ y % 100 # 0) \/ y % 400 = 0

DaysInMonth(y, m) ==
    CASE m \in {1, 3, 5, 7, 8, 10, 12} -> 31
      [] m \in {4, 6, 9, 11} -> 30
      [] m = 2 -> IF IsLeap(y) THEN 29 ELSE 28
      [] OTHER -> 0

ValidYMD(y, m, d) == y \in 1..9999 /\ m \in 1..12 /\ d \in 1..DaysInMonth(y, m)

NoDate == [ok |-> FALSE, y |-> 0, m |-> 0, d |-> 0]

\* the positions of "-" in s
Dashes(s) == {i \in 1..Len(s) : Char(s, i) = "-"}

\* datetime.strptime(s, "%Y-%m-%d"): four digits, "-", a month of one or two
\* digits, "-", a day of one or two digits, and a date of the calendar
strptime_ymd(s) ==
    IF Cardinality(Dashes(s)) # 2 THEN NoDate
    ELSE LET i == CHOOSE i \in Dashes(s) : \A j \in Dashes(s) : i <= j
             j == CHOOSE j \in Dashes(s) : j # i
             ys == SubSeq(s, 1, i - 1)
             ms == SubSeq(s, i + 1, j - 1)
             ds == SubSeq(s, j + 1, Len(s))
         IN IF /\ Len(ys) = 4 /\ IsDigits(ys)
               /\ Len(ms) \in 1..2 /\ IsDigits(ms)
               /\ Len(ds) \in 1..2 /\ IsDigits(ds)
               /\ ValidYMD(ToInt(ys), ToInt(ms), ToInt(ds))
            THEN [ok |-> TRUE, y |-> ToInt(ys), m |-> ToInt(ms), d |-> ToInt(ds)]
            ELSE NoDate

\* datetime.fromisoformat(s) for a date: YYYY-MM-DD (the other ISO 8601
\* forms Python accepts are not among the model's date strings)
fromisoformat(s) ==
    IF Len(s) = 10 /\ Dashes(s) = {5, 8} THEN strptime_ymd(s) ELSE NoDate

\* the day number of a civil date, counted from 1970-01-01
days_from_civil(y, m, d) ==
    LET yy == IF m <= 2 THEN y - 1 ELSE y
        era == yy \div 400
        yoe == yy - era * 400
        mp == (m + 9) % 12
        doy == (153 * mp + 2) \div 5 + d - 1
        doe == yoe * 365 + yoe \div 4 - yoe \div 100 + doy
    IN era * 146097 + doe - 719468

civil_from_days(z) ==
    LET zz == z + 719468
        era == zz \div 146097
        doe == zz - era * 146097
        yoe == (doe - doe \div 1460 + doe \div 36524 - doe \div 146096) \div 365
        doy == doe - (365 * yoe + yoe \div 4 - yoe \div 100)
        mp == (5 * doy + 2) \div 153
        d == doy - (153 * mp + 2) \div 5 + 1
        m == IF mp < 10 THEN mp + 3 ELSE mp - 9
        y == yoe + era * 400
    IN [ok |-> TRUE, y |-> IF m <= 2 THEN y + 1 ELSE y, m |-> m, d |-> d]

\* dt.strftime("%Y-%m-%d")
strftime_ymd(dt) == Pad(dt.y, 4) \o "-" \o Pad(dt.m, 2) \o "-" \o Pad(dt.d, 2)

\* dt + timedelta(days=n)
plus_days(dt, n) == civil_from_days(days_from_civil(dt.y, dt.m, dt.d) + n)

\* datetime.now(), the day the invocation runs
Now == [ok |-> TRUE, y |-> 2024, m |-> 6, d |-> 15]

-----------------------------------------------------------------------------
(* The Report Builder: formatting.Section *)

\* A format string is the sequence of its parts: literal text, a named
\* replacement field {name} or {name:spec}, or an auto-numbered field {}.
L(s) == [k |-> "lit", s |-> s, spec |-> ""]
F(name) == [k |-> "field", s |-> name, spec |-> ""]
FS(name, spec) == [k |-> "field", s |-> name, spec |-> spec]
P0 == [k |-> "auto", s |-> "", spec |-> ""]

\* a dict without the pairs whose key is k
RECURSIVE DictDel(_, _)
DictDel(pairs, k) ==
    IF pairs = <<>> THEN <<>>
    ELSE IF pairs[1][1] = k THEN DictDel(Tail(pairs), k)
    ELSE <<pairs[1]>> \o DictDel(Tail(pairs), k)

\* d[k] = v: a present key keeps its place, a new key goes last
DictSet(d, k, v) ==
    IF HasKey(d, k)
    THEN PyDict([i \in 1..Len(d.v) |-> IF d.v[i][1] = k THEN <<k, v>> ELSE d.v[i]])
    ELSE PyDict(Append(d.v, <<k, v>>))

\* {**a, **b}
RECURSIVE DictMerge(_, _)
DictMerge(a, b) ==
    IF b.v = <<>> THEN a
    ELSE DictMerge(DictSet(a, b.v[1][1], b.v[1][2]), PyDict(Tail(b.v)))

\* {k: v for k, v in d.items() if v is not None}
RECURSIVE DropNone(_)
DropNone(pairs) ==
    IF pairs = <<>> THEN <<>>
    ELSE IF IsNone(pairs[1][2]) THEN DropNone(Tail(pairs))
    ELSE <<pairs[1]>> \o DropNone(Tail(pairs))

Ok(v) == [k |-> "ok", v |-> v]
Exc(cls) == [k |-> "raise", exc |-> cls]

\* Section.process_data: a copy without the None values; a value that is
\* neither None nor a dict has no items()
process_data(data) ==
    IF IsNone(data) THEN Ok(PyDict(<<>>))
    ELSE IF IsDict(data) THEN Ok(PyDict(DropNone(data.v)))
    ELSE Exc("AttributeError")

\* format(v, spec) for the format specs the formatters use: "" and ".<n>f"
format_value(v, spec) ==
    IF spec = "" THEN Ok(py_str(v))
    ELSE IF v.t = "int" THEN
        LET n == ToInt(SubSeq(spec, 2, Len(spec) - 1))
        IN Ok(ToString(v.v) \o (IF n = 0 THEN "" ELSE "." \o SubSeq("000000", 1, n)))
    ELSE IF v.t = "str" THEN Exc("ValueError")
    ELSE Exc("TypeError")

\* faulty variant: a named field that is missing is rendered as an empty text
field_value_blank(p, auto, args, kw) ==
    CASE p.k = "lit" -> Ok(PyStr(p.s))
      [] p.k = "field" -> IF HasKey(kw, p.s) THEN Ok(Get(kw, p.s)) ELSE Ok(PyStr(""))
      [] p.k = "auto" -> IF auto <= Len(args) THEN Ok(args[auto]) ELSE Exc("IndexError")

\* the value a replacement field p stands for: kw[name], or args[auto]
field_value(p, auto, args, kw) ==
    CASE p.k = "lit" -> Ok(PyStr(p.s))
      [] p.k = "field" -> IF HasKey(kw, p.s) THEN Ok(Get(kw, p.s)) ELSE Exc("KeyError")
      [] p.k = "auto" -> IF auto <= Len(args) THEN Ok(args[auto]) ELSE Exc("IndexError")

\* the text of a found value under the field's format spec
field_text(found, spec) ==
    IF found.k = "ok" THEN format_value(found.v, spec) ELSE found

\* the text of part p followed by the text of the parts after it
format_join(p, text, rest) ==
    IF text.k # "ok" THEN [k |-> "raise", exc |-> text.exc, key |-> p.s]
    ELSE IF rest.k # "ok" THEN rest
    ELSE [k |-> "ok", v |-> text.v \o rest.v, key |-> ""]

\* fmt_str.format(*args, **kw), parts from the i-th on, the next auto-numbered
\* field being args[auto]: the text, or the first error in field order
RECURSIVE str_format(_, _, _, _, _)
str_format(parts, i, auto, args, kw) ==
    IF i > Len(parts) THEN [k |-> "ok", v |-> "", key |-> ""]
    ELSE format_join(parts[i],
                     field_text(field_value(parts[i], auto, args, kw), parts[i].spec),
                     str_format(parts, i + 1, IF parts[i].k = "auto" THEN auto + 1 ELSE auto,
                                args, kw))

\* the retry loop of Section.append: the line (or none), and how many times
\* the loop body ran; r is what fmt_str.format gave in this iteration
RECURSIVE append_loop(_, _, _, _, _, _)
RECURSIVE append_retry(_, _, _, _, _, _, _)
\* faulty variant: an IndexError is retried with one more none_val whatever
\* args holds already
append_retry_any_args(r, parts, args, data, defaults, none_val, n) ==
    IF r.k = "ok" THEN [k |-> "line", line |-> r.v, iters |-> n]
    ELSE IF r.exc = "KeyError" THEN
         IF ~IsNone(none_val) /\ ~HasKey(data, r.key)
         THEN append_loop(parts, args, DictSet(data, r.key, none_val), defaults, none_val, n + 1)
         ELSE [k |-> "none", line |-> "", iters |-> n]
    ELSE IF r.exc = "IndexError" THEN
         IF ~IsNone(none_val)
         THEN append_loop(parts, Append(args, none_val), data, defaults, none_val, n + 1)
         ELSE [k |-> "none", line |-> "", iters |-> n]
    ELSE [k |-> "raise", exc |-> r.exc, line |-> "", iters |-> n]

append_retry(r, parts, args, data, defaults, none_val, n) ==
    IF r.k = "ok" THEN [k |-> "line", line |-> r.v, iters |-> n]
    ELSE IF r.exc = "KeyError" THEN
         IF ~IsNone(none_val) /\ ~HasKey(data, r.key)
         THEN append_loop(parts, args, DictSet(data, r.key, none_val), defaults, none_val, n + 1)
         ELSE [k |-> "none", line |-> "", iters |-> n]
    ELSE IF r.exc = "IndexError" THEN
         IF ~IsNone(none_val) /\ Len(args) = 0
         THEN append_loop(parts, <<none_val>>, data, defaults, none_val, n + 1)
         ELSE [k |-> "none", line |-> "", iters |-> n]
    ELSE [k |-> "raise", exc |-> r.exc, line |-> "", iters |-> n]

append_loop(parts, args, data, defaults, none_val, n) ==
    append_retry(str_format(parts, 1, 1, args, DictMerge(defaults, data)),
                 parts, args, data, defaults, none_val, n)

\* the first key of value_key whose value in data is not None
RECURSIVE first_value(_, _)
first_value(keys, data) ==
    IF keys = <<>> THEN PyNone
    ELSE IF ~IsNone(Get(data, keys[1])) THEN Get(data, keys[1])
    ELSE first_value(Tail(keys), data)

\* the arguments of one Section.append call; value_key is a sequence of keys
\* (a single key is a sequence of one), absent arguments are None or empty
AppendCall(fmt, value_key, value, data, none_val, defaults, kwargs) ==
    [fmt |-> fmt, value_key |-> value_key, value |-> value, data |-> data,
     none_val |-> none_val, defaults |-> defaults, kwargs |-> kwargs]

\* kwargs["value"] after the value_key lookup found v, the value argument and
\* none_val have had their turn
value_from_key(kwargs, v) == IF ~IsNone(v) THEN DictSet(kwargs, "value", v) ELSE kwargs
value_from_arg(kwargs, value) == IF ~IsNone(value) THEN DictSet(kwargs, "value", value) ELSE kwargs
value_from_none(kwargs, none_val) ==
    IF ~IsNone(none_val) /\ IsNone(Get(kwargs, "value"))
    THEN DictSet(kwargs, "value", none_val)
    ELSE kwargs

\* args: kwargs["value"] when it is not None
value_args(kwargs) ==
    IF ~IsNone(Get(kwargs, "value")) THEN <<Get(kwargs, "value")>> ELSE <<>>

\* Section.append from the merged data on
append_data(data, c) ==
    append_loop(c.fmt,
                value_args(value_from_none(value_from_arg(
                    value_from_key(c.kwargs, first_value(c.value_key, data)), c.value), c.none_val)),
                data, c.defaults, c.none_val, 1)

\* faulty variant: the merge is made in the opposite order, the section's
\* data last
append_processed_section_last(self_data, pd, c) ==
    IF pd.k # "ok" THEN [k |-> "raise", exc |-> pd.exc, line |-> "", iters |-> 0]
    ELSE append_data(DictMerge(DictMerge(c.kwargs, pd.v), self_data), c)

\* Section.append from the processed data argument pd on
append_processed(self_data, pd, c) ==
    IF pd.k # "ok" THEN [k |-> "raise", exc |-> pd.exc, line |-> "", iters |-> 0]
    ELSE append_data(DictMerge(DictMerge(self_data, pd.v), c.kwargs), c)

\* Section.append up to the line it adds: [k |-> "line" | "none" | "raise"]
append_line(self_data, c) == append_processed(self_data, process_data(c.data), c)

\* Section.__init__: lines is the list the section writes to (empty when the
\* caller passes none), parent_indent the indent of the parent ("" without
\* one); exc names the exception a later step of the caller has to raise
Section_init(lines, parent_indent, heading, indent, pd) ==
    [lines |-> lines,
     heading_lines |-> (IF Len(lines) > 0 THEN <<"">> ELSE <<>>)
                       \o (IF IsNone(heading) THEN <<>> ELSE <<parent_indent \o heading.v>>),
     indent |-> parent_indent \o indent,
     data |-> IF pd.k = "ok" THEN pd.v ELSE PyDict(<<>>),
     exc |-> IF pd.k = "ok" THEN "" ELSE pd.exc]

Section(lines, parent_indent, heading, indent, data) ==
    Section_init(lines, parent_indent, heading, indent, process_data(data))

\* the section after append has formatted r
append_put(self, r) ==
    CASE r.k = "raise" -> [self EXCEPT !.exc = r.exc]
      [] r.k = "none" -> self
      [] r.k = "line" ->
            [self EXCEPT !.lines = self.lines \o self.heading_lines \o <<self.indent \o r.line>>,
                         !.heading_lines = <<>>]

\* Section.append: the pending heading lines go out with the first line
append(self, c) ==
    IF self.exc # "" THEN self ELSE append_put(self, append_line(self.data, c))

\* Section.append_lines
append_lines(self, lines) ==
    IF self.exc # "" \/ Len(lines) = 0 THEN self
    ELSE [self EXCEPT !.lines = self.lines \o self.heading_lines \o lines,
                      !.heading_lines = <<>>]

\* the calls of one block of appends, in order
RECURSIVE append_all(_, _)
append_all(self, cs) ==
    IF cs = <<>> \/ self.exc # "" THEN self
    ELSE append_all(append(self, cs[1]), Tail(cs))

NoKw == PyDict(<<>>)
A(fmt) == AppendCall(fmt, <<>>, PyNone, PyNone, PyNone, NoKw, NoKw)
AV(fmt, value) == AppendCall(fmt, <<>>, value, PyNone, PyNone, NoKw, NoKw)
AK(fmt, value_key) == AppendCall(fmt, value_key, PyNone, PyNone, PyNone, NoKw, NoKw)
AN(fmt, none_val) == AppendCall(fmt, <<>>, PyNone, PyNone, none_val, NoKw, NoKw)
AD(fmt, defaults) == AppendCall(fmt, <<>>, PyNone, PyNone, PyNone, defaults, NoKw)

\* Section.__exit__ of a section with a parent: the parent after the child
\* has handed over its lines
Section_exit(self, parent) ==
    IF self.exc # "" THEN [parent EXCEPT !.exc = self.exc]
    ELSE append_lines(IF Len(parent.lines) > 0 THEN append(parent, A(<<>>)) ELSE parent,
                      self.lines)

\* "with Section(lines, data=..., heading=..., indent=...) as s:" followed by
\* the appends of its body; lines is the list shared with the caller
Block(lines, heading, indent, data, cs) ==
    append_all(Section(lines, "", heading, indent, data), cs)

\* a run of such blocks over the same list and data, each
\* <<heading, indent, calls>>: the section of the last block
RECURSIVE Blocks(_, _, _)
Blocks(sec, data, blocks) ==
    IF blocks = <<>> \/ sec.exc # "" THEN sec
    ELSE Blocks(Block(sec.lines, blocks[1][1], blocks[1][2], data, blocks[1][3]),
                data, Tail(blocks))

IsSpace(c) == c \in {" ", "\n", "\t", "\r"}

\* str.strip / str.rstrip
RECURSIVE rstrip(_)
rstrip(s) ==
    IF Len(s) > 0 /\ IsSpace(Char(s, Len(s))) THEN rstrip(SubSeq(s, 1, Len(s) - 1)) ELSE s

RECURSIVE lstrip(_)
lstrip(s) ==
    IF Len(s) > 0 /\ IsSpace(Char(s, 1)) THEN lstrip(SubSeq(s, 2, Len(s))) ELSE s

strip(s) == lstrip(rstrip(s))

\* main_section.lines[-1] = main_section.lines[-1].strip()
strip_last_line(self) ==
    IF self.exc # "" THEN self
    ELSE IF Len(self.lines) = 0 THEN [self EXCEPT !.exc = "IndexError"]
    ELSE [self EXCEPT !.lines[Len(self.lines)] = strip(self.lines[Len(self.lines)])]

\* return "\n".join(lines), unless a step before it raised
joined(self) ==
    IF self.exc # "" THEN Exc(self.exc) ELSE Ok(JoinStr(self.lines, "\n"))

-----------------------------------------------------------------------------
(* The formatters of utils/formatting.py.  The append tables below carry the
   format strings of the source; its non-ASCII characters are written "deg ",
   "alpha" and "inf". *)

IsPair(x) == x.t \in {"str", "list", "dict"}

\* len(x)
py_len(x) == IF x.t = "str" THEN Len(x.v) ELSE Len(x.v)

\* datetime.fromisoformat(s.replace("Z", "+00:00")).strftime("%Y-%m-%d %H:%M:%S")
\* for the timestamps YYYY-MM-DDTHH:MM:SS with an optional Z; any other text
\* is left as it is (the ValueError branch)
iso_wellformed(core) ==
    /\ Len(core) = 19 /\ fromisoformat(SubSeq(core, 1, 10)).ok
    /\ Char(core, 11) \in {"T", " "}
    /\ Char(core, 14) = ":" /\ Char(core, 17) = ":"
    /\ IsDigits(SubSeq(core, 12, 13)) /\ IsDigits(SubSeq(core, 15, 16))
    /\ IsDigits(SubSeq(core, 18, 19))
    /\ ToInt(SubSeq(core, 12, 13)) < 24 /\ ToInt(SubSeq(core, 15, 16)) < 60
    /\ ToInt(SubSeq(core, 18, 19)) < 60

iso_text(s, core) ==
    IF iso_wellformed(core) THEN SubSeq(core, 1, 10) \o " " \o SubSeq(core, 12, 19) ELSE s

iso_datetime(s) ==
    iso_text(s, IF Len(s) = 20 /\ Char(s, 20) = "Z" THEN SubSeq(s, 1, 19) ELSE s)

\* the appends to main_section in format_activity_summary
format_activity_summary_main_section(start_time) ==
    << A(<<L("Activity: "), F("name")>>),
       A(<<L("ID: "), F("id")>>),
       A(<<L("Type: "), F("type")>>),
       AV(<<L("Date: "), P0>>, start_time),
       A(<<L("Description: "), F("description")>>),
       A(<<L("Distance: "), F("distance"), L(" meters")>>),
       A(<<L("Duration: "), F("duration"), L(" seconds")>>),
       A(<<L("Moving Time: "), F("moving_time"), L(" seconds")>>),
       A(<<L("Elevation Gain: "), F("elevation_gain"), L(" meters")>>),
       A(<<L("Elevation Loss: "), F("elevation_loss"), L(" meters")>>) >>

\* the appends to power_section in format_activity_summary
format_activity_summary_power_section ==
    << A(<<L("Average Power: "), F("avg_power"), L(" W")>>),
       A(<<L("Weighted Avg Power: "), F("weighted_avg_power"), L(" W")>>),
       A(<<L("Training Load: "), F("training_load")>>),
       A(<<L("FTP: "), F("ftp"), L(" W")>>),
       A(<<L("Kilojoules: "), F("kilojoules")>>),
       A(<<L("Intensity: "), F("intensity")>>),
       A(<<L("Power:HR Ratio: "), F("power_hr_ratio")>>),
       A(<<L("Variability Index: "), F("variability_index")>>) >>

\* the appends to hr_section in format_activity_summary
format_activity_summary_hr_section ==
    << A(<<L("Average Heart Rate: "), F("avg_hr"), L(" bpm")>>),
       A(<<L("Max Heart Rate: "), F("max_hr"), L(" bpm")>>),
       A(<<L("LTHR: "), F("lthr"), L(" bpm")>>),
       A(<<L("Resting HR: "), F("resting_hr"), L(" bpm")>>),
       A(<<L("Decoupling: "), F("decoupling")>>) >>

\* the appends to other_section in format_activity_summary
format_activity_summary_other_section ==
    << A(<<L("Cadence: "), F("cadence"), L(" rpm")>>),
       A(<<L("Calories: "), F("calories")>>),
       A(<<L("Average Speed: "), F("average_speed"), L(" m/s")>>),
       A(<<L("Max Speed: "), F("max_speed"), L(" m/s")>>),
       A(<<L("Average Stride: "), F("average_stride"), L(" m")>>),
       A(<<L("L/R Balance: "), F("avg_lr_balance")>>),
       A(<<L("Weight: "), F("weight"), L(" kg")>>),
       AK(<<L("RPE: "), F("value"), L("/10")>>, <<"perceived_exertion", "icu_rpe">>),
       A(<<L("Session RPE: "), F("session_rpe")>>),
       A(<<L("Feel: "), F("feel"), L("/5")>>) >>

\* the appends to environment_section in format_activity_summary
format_activity_summary_environment_section ==
    << A(<<L("Trainer: "), F("trainer")>>),
       A(<<L("Average Temp: "), F("average_temp"), L("deg C")>>),
       A(<<L("Min Temp: "), F("min_temp"), L("deg C")>>),
       A(<<L("Max Temp: "), F("max_temp"), L("deg C")>>),
       A(<<L("Avg Wind Speed: "), F("average_wind_speed"), L(" km/h")>>),
       A(<<L("Headwind %: "), F("headwind_percent"), L("%")>>),
       A(<<L("Tailwind %: "), F("tailwind_percent"), L("%")>>) >>

\* the appends to training_metrics_section in format_activity_summary
format_activity_summary_training_metrics_section ==
    << A(<<L("Fitness (CTL): "), F("ctl")>>),
       A(<<L("Fatigue (ATL): "), F("atl")>>),
       A(<<L("TRIMP: "), F("trimp")>>),
       A(<<L("Polarization Index: "), F("polarization_index")>>),
       A(<<L("Power Load: "), F("power_load")>>),
       A(<<L("HR Load: "), F("hr_load")>>),
       A(<<L("Pace Load: "), F("pace_load")>>),
       A(<<L("Efficiency Factor: "), F("efficiency_factor")>>) >>

\* the appends to device_section in format_activity_summary
format_activity_summary_device_section ==
    << A(<<L("Device: "), F("device_name")>>),
       A(<<L("Power Meter: "), F("power_meter")>>),
       A(<<L("File Type: "), F("file_type")>>) >>

\* the appends to main_section in format_workout
format_workout_main_section(n) ==
    << A(<<L("Workout: "), F("name")>>),
       A(<<L("Description: "), F("description")>>),
       A(<<L("Sport: "), F("sport")>>),
       AN(<<L("Duration: "), F("duration"), L(" seconds")>>, PyInt(0)),
       A(<<L("TSS: "), F("tss")>>),
       AV(<<L("Intervals: "), P0>>, n) >>

\* the appends to main_section in format_wellness_entry
format_wellness_entry_main_section ==
    << A(<<L("Date: "), F("id")>>) >>

\* the appends to metrics_section in format_wellness_entry
format_wellness_entry_metrics_section ==
    << A(<<L("Fitness (CTL): "), F("ctl")>>),
       A(<<L("Fatigue (ATL): "), F("atl")>>),
       A(<<L("Ramp Rate: "), F("rampRate")>>),
       A(<<L("CTL Load: "), F("ctlLoad")>>),
       A(<<L("ATL Load: "), F("atlLoad")>>) >>

\* the appends to vital_section in format_wellness_entry
format_wellness_entry_vital_section ==
    << A(<<L("Weight: "), F("weight"), L(" kg")>>),
       A(<<L("Resting HR: "), F("restingHR"), L(" bpm")>>),
       A(<<L("HRV: "), F("hrv")>>),
       A(<<L("HRV SDNN: "), F("hrvSDNN")>>),
       A(<<L("Average Sleeping HR: "), F("avgSleepingHR"), L(" bpm")>>),
       A(<<L("SpO2: "), F("spO2"), L("%")>>),
       A(<<L("Blood Pressure: "), F("systolic"), L("/"), F("diastolic"), L(" mmHg")>>),
       A(<<L("Respiration: "), F("respiration"), L(" breaths/min")>>),
       A(<<L("Blood Glucose: "), F("bloodGlucose"), L(" mmol/L")>>),
       A(<<L("Lactate: "), F("lactate"), L(" mmol/L")>>),
       A(<<L("VO2 Max: "), F("vo2max"), L(" ml/kg/min")>>),
       A(<<L("Body Fat: "), F("bodyFat"), L("%")>>),
       A(<<L("Abdomen: "), F("abdomen"), L(" cm")>>),
       A(<<L("Baevsky Stress Index: "), F("baevskySI")>>) >>

\* the appends to sleep_section in format_wellness_entry
format_wellness_entry_sleep_section ==
    << A(<<L("Sleep: "), F("sleepHours"), L(" hours")>>),
       A(<<L("Sleep Score: "), F("sleepScore")>>),
       A(<<L("Sleep Quality: "), F("sleepQuality"), L("/4")>>),
       A(<<L("Readiness: "), F("readiness")>>) >>

\* the appends to menstrual_section in format_wellness_entry
format_wellness_entry_menstrual_section ==
    << A(<<L("Menstrual Phase: "), F("menstrualPhase")>>),
       A(<<L("Predicted Phase: "), F("menstrualPhasePredicted")>>) >>

\* the appends to subjective_section in format_wellness_entry
format_wellness_entry_subjective_section ==
    << A(<<L("Soreness: "), F("soreness"), L("/14")>>),
       A(<<L("Fatigue: "), F("fatigue"), L("/4")>>),
       A(<<L("Stress: "), F("stress"), L("/4")>>),
       A(<<L("Mood: "), F("mood"), L("/4")>>),
       A(<<L("Motivation: "), F("motivation"), L("/4")>>),
       A(<<L("Injury: "), F("injury"), L("/4")>>) >>

\* the appends to nutrition_section in format_wellness_entry
format_wellness_entry_nutrition_section ==
    << A(<<L("Calories Consumed: "), F("kcalConsumed"), L(" kcal")>>),
       A(<<L("Hydration Volume: "), F("hydrationVolume"), L(" ml")>>),
       A(<<L("Hydration Score: "), F("hydration"), L("/4")>>) >>

\* the appends to activity_section in format_wellness_entry
format_wellness_entry_activity_section ==
    << A(<<L("Steps: "), F("steps")>>) >>

\* the appends to comments_section in format_wellness_entry
format_wellness_entry_comments_section(status) ==
    << A(<<L("Comments: "), F("comments")>>),
       AV(<<L("Status: "), P0>>, status) >>

\* the appends to sport_section in format_wellness_entry
format_wellness_entry_sport_section(sport) ==
    << AppendCall(<<F("type"), L(": eFTP = "), FS("eftp", ".0f"), L(" W")>>, <<>>, PyNone, sport, PyNone, NoKw, NoKw) >>

\* the appends to main_section in format_event_summary
format_event_summary_main_section(type) ==
    << AK(<<L("Date: "), P0>>, <<"start_date_local", "date">>),
       A(<<L("ID: "), F("id")>>),
       AppendCall(<<L("Type: "), F("type")>>, <<>>, PyNone, PyNone, PyNone, NoKw, Dict1("type", type)),
       A(<<L("Name: "), F("name")>>),
       A(<<L("Description: \n"), F("description")>>) >>

\* the appends to main_section in format_event_details
format_event_details_main_section ==
    << A(<<>>),
       A(<<L("ID: "), F("id")>>),
       A(<<L("Date: "), F("date")>>),
       A(<<L("Name: "), F("name")>>),
       A(<<L("Description: \n"), F("description")>>) >>

\* the appends to workout_section in format_event_details
format_event_details_workout_section(n) ==
    << A(<<L("Workout ID: "), F("id")>>),
       A(<<L("Sport: "), F("sport")>>),
       A(<<L("Duration: "), F("duration"), L(" seconds")>>),
       A(<<L("TSS: "), F("tss")>>),
       AV(<<L("Intervals: "), P0>>, n) >>

\* the appends to race_section in format_event_details
format_event_details_race_section ==
    << A(<<L("Priority: "), F("priority")>>),
       A(<<L("Result: "), F("result")>>) >>

\* the appends to calendar_section in format_event_details
format_event_details_calendar_section ==
    << A(<<L("Calendar: "), F("name")>>) >>

\* the appends to main_section in format_intervals
format_intervals_main_section ==
    << A(<<L("ID: "), F("id")>>),
       A(<<L("Analyzed: "), F("analyzed")>>) >>

\* the appends to interval_section in format_intervals
format_intervals_interval_section ==
    << AN(<<L("Duration: "), F("elapsed_time"), L(" seconds (moving: "), F("moving_time"), L(" seconds)")>>, PyInt(0)),
       A(<<L("Distance: "), F("distance"), L(" meters")>>),
       A(<<L("Start-End Indices: "), F("start_index"), L("-"), F("end_index")>>) >>

\* the appends to group_section in format_intervals
format_intervals_group_section(i) ==
    << AppendCall(<<L("["), F("i"), L("] "), F("label"), L(" ("), F("type"), L(")")>>, <<>>, PyNone, PyNone, PyNone,
                  PyDict(<< <<"label", PyStr("Group " \o ToString(i))>>, <<"type", PyStr("Unknown")>> >>),
                  Dict1("i", PyInt(i))),
       AN(<<L("Duration: "), F("elapsed_time"), L(" seconds (moving: "), F("moving_time"), L(" seconds)")>>, PyInt(0)),
       A(<<L("Distance: "), F("distance"), L(" meters")>>),
       AN(<<L("Start-End Indices: "), F("start_index"), L("-"), F("end_index")>>, PyInt(0)),
       AD(<<L("Power: Avg "), F("average_watts"), L(" watts ("), F("average_watts_kg"), L(" W/kg), Max "), F("max_watts"), L(" watts ("), F("max_watts_kg"), L(" W/kg)")>>, PyDict(<< <<"average_watts_kg", PyInt(0)>>, <<"max_watts_kg", PyInt(0)>> >>)),
       A(<<L("W. Avg Power: "), F("weighted_average_watts"), L(" watts, Intensity: "), F("intensity")>>),
       A(<<L("Heart Rate: Avg "), F("average_heartrate"), L(", Max "), F("max_heartrate"), L(" bpm")>>),
       A(<<L("Speed: Avg "), F("average_speed"), L(", Max "), F("max_speed"), L(" m/s")>>),
       A(<<L("Cadence: Avg "), F("average_cadence"), L(", Max "), F("max_cadence"), L(" rpm")>>) >>

\* the appends to power_section in format_intervals
format_intervals_power_section ==
    << AD(<<L("Average Power: "), F("average_watts"), L(" watts ("), F("average_watts_kg"), L(" W/kg)")>>, PyDict(<< <<"average_watts_kg", PyInt(0)>> >>)),
       AD(<<L("Max Power: "), F("max_watts"), L(" watts ("), F("max_watts_kg"), L(" W/kg)")>>, PyDict(<< <<"max_watts_kg", PyInt(0)>> >>)),
       A(<<L("Weighted Avg Power: "), F("weighted_average_watts"), L(" watts")>>),
       A(<<L("Intensity: "), F("intensity")>>),
       A(<<L("Training Load: "), F("training_load")>>),
       A(<<L("Joules: "), F("joules")>>),
       A(<<L("Joules > FTP: "), F("joules_above_ftp")>>),
       A(<<L("Power Zone: "), F("zone"), L(" ("), F("zone_min_watts"), L("-"), F("zone_max_watts"), L(" watts)")>>),
       A(<<L("W' Balance: Start "), F("wbal_start"), L(", End "), F("wbal_end")>>),
       A(<<L("L/R Balance: "), F("avg_lr_balance")>>),
       A(<<L("Variability: "), F("w5s_variability")>>),
       A(<<L("Torque: Avg "), F("average_torque"), L(", Min "), F("min_torque"), L(", Max "), F("max_torque")>>) >>

\* the appends to heart_rate_section in format_intervals
format_intervals_heart_rate_section ==
    << A(<<L("Heart Rate: Avg "), F("average_heartrate"), L(", Min "), F("min_heartrate"), L(", Max "), F("max_heartrate"), L(" bpm")>>),
       A(<<L("Decoupling: "), F("decoupling")>>),
       A(<<L("DFA alpha1: "), F("average_dfa_a1")>>),
       A(<<L("Respiration: "), F("average_respiration"), L(" breaths/min")>>),
       A(<<L("EPOC: "), F("average_epoc")>>),
       A(<<L("SmO2: "), F("average_smo2"), L("% / "), F("average_smo2_2"), L("%")>>),
       A(<<L("THb: "), F("average_thb"), L("% / "), F("average_thb_2"), L("%")>>) >>

\* the appends to speed_section in format_intervals
format_intervals_speed_section ==
    << A(<<L("Speed: Avg "), F("average_speed"), L(", Min "), F("min_speed"), L(", Max "), F("max_speed"), L(" m/s")>>),
       A(<<L("GAP: "), F("gap"), L(" m/s")>>),
       A(<<L("Cadence: Avg "), F("average_cadence"), L(", Min "), F("min_cadence"), L(", Max "), F("max_cadence"), L(" rpm")>>),
       A(<<L("Stride: "), F("average_stride")>>) >>

\* the appends to elevation_section in format_intervals
format_intervals_elevation_section ==
    << A(<<L("Elevation Gain: "), F("total_elevation_gain"), L(" meters")>>),
       A(<<L("Altitude: Min "), F("min_altitude"), L(", Max "), F("max_altitude"), L(" meters")>>),
       A(<<L("Gradient: "), F("average_gradient"), L("%")>>),
       A(<<L("Temperature: "), F("average_temp"), L("deg C (Weather: "), F("average_weather_temp"), L("deg C, Feels like: "), F("average_feels_like"), L("deg C)")>>),
       A(<<L("Wind: Speed "), F("average_wind_speed"), L(" km/h, Gust "), F("average_wind_gust"), L(" km/h, Direction "), F("prevailing_wind_deg"), L("deg ")>>),
       A(<<L("Headwind: "), F("headwind_percent"), L("%, Tailwind: "), F("tailwind_percent"), L("%")>>) >>

\* a section over the list of the section before it, and a block of appends
\* in it, unless a step before raised
NextSection(prev, heading, indent, data) ==
    IF prev.exc # "" THEN prev ELSE Section(prev.lines, "", heading, indent, data)

NextBlock(prev, heading, indent, data, cs) ==
    append_all(NextSection(prev, heading, indent, data), cs)

\* start_time after the try block that reformats a timestamp
start_time_text(start_time) ==
    IF IsStr(start_time) /\ Len(start_time.v) > 10
    THEN PyStr(iso_datetime(start_time.v))
    ELSE start_time

format_activity_summary(activity) ==
    IF ~IsDict(activity) THEN Exc("AttributeError")
    ELSE joined(Blocks(
        append_all(Section(<<>>, "", PyNone, "", activity),
                   format_activity_summary_main_section(start_time_text(
                       GetOr(activity, "startTime",
                             GetOr(activity, "start_date", PyStr("Unknown")))))),
        activity,
        << <<PyStr("Power Data:"), "- ", format_activity_summary_power_section>>,
           <<PyStr("Heart Rate Data:"), "- ", format_activity_summary_hr_section>>,
           <<PyStr("Other Metrics:"), "- ", format_activity_summary_other_section>>,
           <<PyStr("Environment:"), "- ", format_activity_summary_environment_section>>,
           <<PyStr("Training Metrics:"), "- ", format_activity_summary_training_metrics_section>>,
           <<PyStr("Device Info:"), "- ", format_activity_summary_device_section>> >>))

format_workout_intervals(workout, intervals) ==
    IF ~IsPair(intervals) THEN Exc("TypeError")
    ELSE joined(append_all(Section(<<>>, "", PyNone, "", workout),
                           format_workout_main_section(PyInt(py_len(intervals)))))

format_workout(workout) ==
    IF ~IsDict(workout) THEN Exc("AttributeError")
    ELSE format_workout_intervals(workout, GetOr(workout, "intervals", PyList(<<>>)))

\* the loop over entries["sportInfo"] inside the sport section
RECURSIVE format_wellness_entry_sports(_, _)
format_wellness_entry_sports(sec, sports) ==
    IF sports = <<>> THEN sec
    ELSE format_wellness_entry_sports(
             IF IsDict(sports[1])
             THEN append_all(sec, format_wellness_entry_sport_section(sports[1]))
             ELSE sec,
             Tail(sports))

\* a/b as Python's true division yields it: a float, kept as the fraction
PyFloatDiv(a, b) == [t |-> "float", v |-> <<a, b>>]

\* the entries map as format_wellness_entry leaves it: sleepHours is stored
\* into the caller's map
format_wellness_entry_entries(entries) ==
    IF IsDict(entries) /\ ~IsNone(Get(entries, "sleepSecs")) /\ Get(entries, "sleepSecs").t = "int"
    THEN DictSet(entries, "sleepHours", PyFloatDiv(Get(entries, "sleepSecs").v, 3600))
    ELSE entries

\* the body of "with ... as sport_section"
format_wellness_entry_sport(sport_section, sportInfo) ==
    IF sport_section.exc # "" \/ ~Truthy(sportInfo) THEN sport_section
    ELSE IF IsList(sportInfo) THEN format_wellness_entry_sports(sport_section, sportInfo.v)
    ELSE IF IsStr(sportInfo) \/ IsDict(sportInfo) THEN sport_section
    ELSE [sport_section EXCEPT !.exc = "TypeError"]

\* the body of "with ... as sleep_section"
format_wellness_entry_sleep(sleep_section, sleepSecs) ==
    IF sleep_section.exc # "" THEN sleep_section
    ELSE IF ~IsNone(sleepSecs) /\ sleepSecs.t \notin {"int", "bool", "float"}
    THEN [sleep_section EXCEPT !.exc = "TypeError"]
    ELSE append_all(sleep_section, format_wellness_entry_sleep_section)

\* main_section and the metrics, sport and vital sections
format_wellness_entry_head(entries) ==
    NextBlock(
        format_wellness_entry_sport(
            NextSection(
                NextBlock(append_all(Section(<<>>, "", PyStr("Wellness Data:"), "", entries),
                                     format_wellness_entry_main_section),
                          PyStr("Training Metrics:"), "- ", entries,
                          format_wellness_entry_metrics_section),
                PyStr("Sport-Specific Info:"), "- ", entries),
            Get(entries, "sportInfo")),
        PyStr("Vital Signs:"), "- ", entries, format_wellness_entry_vital_section)

format_wellness_entry(entries) ==
    IF ~IsDict(entries) THEN Exc("AttributeError")
    ELSE joined(Blocks(
        format_wellness_entry_sleep(
            NextSection(format_wellness_entry_head(entries),
                        PyStr("Sleep & Recovery:"), "- ", entries),
            Get(entries, "sleepSecs")),
        format_wellness_entry_entries(entries),
        << <<PyStr("Menstrual Tracking:"), "- ", format_wellness_entry_menstrual_section>>,
           <<PyStr("Subjective Feelings:"), "- ", format_wellness_entry_subjective_section>>,
           <<PyStr("Nutrition & Hydration:"), "- ", format_wellness_entry_nutrition_section>>,
           <<PyStr("Activity:"), "- ", format_wellness_entry_activity_section>>,
           <<PyNone, "", format_wellness_entry_comments_section(
                 PyStr(IF Truthy(GetOr(entries, "locked", PyBool(FALSE)))
                       THEN "Locked" ELSE "Unlocked"))>> >>))

\* "Workout" if event.get("workout") else "Race" if event.get("race") else "Other"
event_type(event) ==
    IF Truthy(Get(event, "workout")) THEN "Workout"
    ELSE IF Truthy(Get(event, "race")) THEN "Race" ELSE "Other"

format_event_summary(event) ==
    IF ~IsDict(event) THEN Exc("AttributeError")
    ELSE joined(strip_last_line(
             Block(<<>>, PyNone, "", event,
                   format_event_summary_main_section(PyStr(event_type(event))))))

\* the body of "with ... as workout_section": four appends, then the
\* intervals line when workout.get("intervals") is truthy
format_event_details_workout_body(workout_section, intervals) ==
    IF workout_section.exc # "" THEN workout_section
    ELSE IF ~Truthy(intervals)
    THEN append_all(workout_section, SubSeq(format_event_details_workout_section(PyNone), 1, 4))
    ELSE IF ~IsPair(intervals) THEN [workout_section EXCEPT !.exc = "TypeError"]
    ELSE append_all(workout_section,
                    format_event_details_workout_section(PyInt(py_len(intervals))))

\* if workout := event.get("workout")
format_event_details_workout(main_section, workout) ==
    IF ~Truthy(workout) THEN main_section
    ELSE format_event_details_workout_body(
             NextSection(main_section, PyStr("Workout Information:"), "", workout),
             IF IsDict(workout) THEN Get(workout, "intervals") ELSE PyNone)

\* if event.get("race")
format_event_details_race(prev, event) ==
    IF prev.exc # "" \/ ~Truthy(Get(event, "race")) THEN prev
    ELSE Block(prev.lines, PyStr("Race Information:"), "", event,
               format_event_details_race_section)

\* if calendar := event.get("calendar")
format_event_details_calendar(prev, calendar) ==
    IF prev.exc # "" \/ ~Truthy(calendar) THEN prev
    ELSE Block(prev.lines, PyStr("Calendar Information:"), "", calendar,
               format_event_details_calendar_section)

format_event_details(event) ==
    IF ~IsDict(event) THEN Exc("AttributeError")
    ELSE joined(format_event_details_calendar(
             format_event_details_race(
                 format_event_details_workout(
                     strip_last_line(Block(<<>>, PyStr("Event Details:"), "", event,
                                           format_event_details_main_section)),
                     Get(event, "workout")),
                 event),
             Get(event, "calendar")))

\* the four sub-sections of one interval, each merged into interval_section
\* when its "with" ends: <<heading, appends>>
format_intervals_subsections ==
    << <<"Power Metrics:", format_intervals_power_section>>,
       <<"Heart Rate & Metabolic:", format_intervals_heart_rate_section>>,
       <<"Speed & Cadence:", format_intervals_speed_section>>,
       <<"Elevation & Environment:", format_intervals_elevation_section>> >>

RECURSIVE format_intervals_children(_, _, _)
format_intervals_children(interval_section, interval, subs) ==
    IF subs = <<>> \/ interval_section.exc # "" THEN interval_section
    ELSE format_intervals_children(
             Section_exit(append_all(Section(<<>>, interval_section.indent, PyStr(subs[1][1]),
                                             "", interval),
                                     subs[1][2]),
                          interval_section),
             interval, Tail(subs))

\* f"[{i}] {interval.get('label', f'Interval {i}')} ({interval.get('type', 'Unknown')})"
format_intervals_heading(interval, i) ==
    "[" \o ToString(i) \o "] "
        \o py_str(GetOr(interval, "label", PyStr("Interval " \o ToString(i))))
        \o " (" \o py_str(GetOr(interval, "type", PyStr("Unknown"))) \o ")"

\* one turn of the loop over icu_intervals: intervals_section after the
\* interval's section has been merged into it
format_intervals_one(intervals_section, interval, i) ==
    Section_exit(
        format_intervals_children(
            append_all(Section(<<>>, intervals_section.indent,
                               PyStr(format_intervals_heading(interval, i)), "", interval),
                       format_intervals_interval_section),
            interval, format_intervals_subsections),
        intervals_section)

\* the loop over icu_intervals, from the i-th interval on
RECURSIVE format_intervals_each(_, _, _)
format_intervals_each(intervals_section, intervals, i) ==
    IF i > Len(intervals) \/ intervals_section.exc # "" THEN intervals_section
    ELSE IF ~IsDict(intervals[i]) THEN [intervals_section EXCEPT !.exc = "AttributeError"]
    ELSE format_intervals_each(format_intervals_one(intervals_section, intervals[i], i),
                               intervals, i + 1)

\* the loop over icu_groups, from the i-th group on
RECURSIVE format_intervals_groups(_, _, _)
format_intervals_groups(groups_section, groups, i) ==
    IF i > Len(groups) \/ groups_section.exc # "" THEN groups_section
    ELSE format_intervals_groups(
             Section_exit(append_all(Section(<<>>, groups_section.indent,
                                             PyStr("Group " \o ToString(i)), "", groups[i]),
                                     format_intervals_group_section(i)),
                          groups_section),
             groups, i + 1)

\* what iterating x yields: the items of a list, the keys of a dict, the
\* characters of a str
iter_items(x) ==
    CASE x.t = "list" -> x.v
      [] x.t = "dict" -> [i \in 1..Len(x.v) |-> PyStr(x.v[i][1])]
      [] x.t = "str" -> [i \in 1..Len(x.v) |-> PyStr(Char(x.v, i))]

\* if intervals_data.get("icu_intervals")
format_intervals_intervals(main_section, intervals) ==
    IF ~Truthy(intervals) THEN main_section
    ELSE IF ~IsPair(intervals) THEN [main_section EXCEPT !.exc = "TypeError"]
    ELSE Section_exit(
             format_intervals_each(
                 Section(<<>>, main_section.indent, PyStr("Individual Intervals:"), "", PyNone),
                 iter_items(intervals), 1),
             main_section)

\* if intervals_data.get("icu_groups")
format_intervals_icu_groups(prev, icu_groups) ==
    IF prev.exc # "" \/ ~Truthy(icu_groups) THEN prev
    ELSE IF ~IsPair(icu_groups) THEN [prev EXCEPT !.exc = "TypeError"]
    ELSE Section_exit(
             format_intervals_groups(
                 Section(<<>>, prev.indent, PyStr("Interval Groups:"), "", PyNone),
                 iter_items(icu_groups), 1),
             prev)

format_intervals(intervals_data) ==
    IF ~IsDict(intervals_data) THEN Exc("AttributeError")
    ELSE joined(format_intervals_icu_groups(
             format_intervals_intervals(
                 append_all(Section(<<>>, "", PyStr("Intervals Analysis:"), "", intervals_data),
                            format_intervals_main_section),
                 Get(intervals_data, "icu_intervals")),
             Get(intervals_data, "icu_groups")))

\* [x for x in s if x] and ', '.join of strings
RECURSIVE FilterTruthy(_)
FilterTruthy(s) ==
    IF s = <<>> THEN <<>>
    ELSE IF Truthy(s[1]) THEN <<s[1]>> \o FilterTruthy(Tail(s))
    ELSE FilterTruthy(Tail(s))

StrsOf(s) == [i \in 1..Len(s) |-> s[i].v]

AllStr(s) == \A i \in 1..Len(s) : IsStr(s[i])

Min2(a, b) == IF a < b THEN a ELSE b

\* int(a / b) for b > 0: the quotient truncated towards zero
TruncDiv(a, b) == IF a >= 0 THEN a \div b ELSE -((-a) \div b)

\* f"{a / b:.<digits>f}" for a >= 0, b > 0: the quotient rounded to that many
\* decimals, a tie going to the even digit
FixedQuot(a, b, digits) ==
    LET scale == IF digits = 1 THEN 10 ELSE 100
        q == (a * scale) \div b
        r == (a * scale) % b
        up == 2 * r > b \/ (2 * r = b /\ q % 2 = 1)
        n == IF up THEN q + 1 ELSE q
        frac == n % scale
    IN ToString(n \div scale) \o "."
       \o (IF digits = 2 /\ frac < 10 THEN "0" ELSE "") \o ToString(frac)

\* the HR zone lines, from the i-th zone on (i counts from 1 here, from 0 in
\* the source)
RECURSIVE format_athlete_hr_zones(_, _, _)
format_athlete_hr_zones(hr_names, hr_zones, i) ==
    IF i > Min2(Len(hr_names), Len(hr_zones)) THEN ""
    ELSE LET zone_min == IF i > 1 THEN hr_zones[i - 1].v ELSE 0
         IN (IF i = Len(hr_zones)
             THEN "  - **" \o py_str(hr_names[i]) \o "**: " \o ToString(zone_min + 1) \o "+ bpm\n"
             ELSE "  - **" \o py_str(hr_names[i]) \o "**: " \o ToString(zone_min + 1) \o "-"
                  \o py_str(hr_zones[i]) \o " bpm\n")
            \o format_athlete_hr_zones(hr_names, hr_zones, i + 1)

RECURSIVE format_athlete_power_zones(_, _, _, _)
format_athlete_power_zones(power_names, power_zones, ftp, i) ==
    IF i > Min2(Len(power_names), Len(power_zones)) THEN ""
    ELSE LET zone_percent == power_zones[i].v
             zone_min_percent == IF i > 1 THEN power_zones[i - 1].v ELSE 0
             zone_min_watts == IF ftp # 0 THEN TruncDiv(ftp * zone_min_percent, 100) ELSE 0
             zone_max_watts == IF ftp # 0 /\ zone_percent < 999
                               THEN ToString(TruncDiv(ftp * zone_percent, 100)) ELSE "inf"
         IN (IF zone_percent >= 999
             THEN "  - **" \o py_str(power_names[i]) \o "**: " \o ToString(zone_min_percent + 1)
                  \o "%+ FTP (" \o ToString(zone_min_watts) \o "+ watts)\n"
             ELSE "  - **" \o py_str(power_names[i]) \o "**: " \o ToString(zone_min_percent + 1)
                  \o "-" \o ToString(zone_percent) \o "% FTP (" \o ToString(zone_min_watts)
                  \o "-" \o zone_max_watts \o " watts)\n")
            \o format_athlete_power_zones(power_names, power_zones, ftp, i + 1)

RECURSIVE format_athlete_pace_zones(_, _, _)
format_athlete_pace_zones(pace_names, pace_zones, i) ==
    IF i > Min2(Len(pace_names), Len(pace_zones)) THEN ""
    ELSE LET zone_percent == pace_zones[i].v
             zone_min_percent == IF i > 1 THEN pace_zones[i - 1].v ELSE 0
         IN (IF zone_percent >= 999
             THEN "  - **" \o py_str(pace_names[i]) \o "**: " \o ToString(zone_min_percent + 1)
                  \o "%+ threshold\n"
             ELSE "  - **" \o py_str(pace_names[i]) \o "**: " \o ToString(zone_min_percent + 1)
                  \o "-" \o ToString(zone_percent) \o ".0% threshold\n")
            \o format_athlete_pace_zones(pace_names, pace_zones, i + 1)

\* the text one sport setting adds to the profile; its numeric fields are
\* integers and its names strings
format_athlete_sport(sport_setting) ==
    LET g(k) == Get(sport_setting, k)
        has(k) == Truthy(g(k))
        sport_types == GetOr(sport_setting, "types", PyList(<<>>))
        primary_sport == sport_types.v[1].v
        sport_name == IF Contains(primary_sport, "Ride") THEN "Cycling"
                      ELSE IF Contains(primary_sport, "Run") THEN "Running"
                      ELSE IF Contains(primary_sport, "Swim") THEN "Swimming"
                      ELSE IF Contains(primary_sport, "Workout") THEN "General Workout"
                      ELSE primary_sport
        heart ==
            IF ~(has("lthr") \/ has("max_hr")) THEN ""
            ELSE "**Heart Rate**:\n"
                 \o (IF has("lthr") THEN "- LTHR: " \o py_str(g("lthr")) \o " bpm\n" ELSE "")
                 \o (IF has("max_hr") THEN "- Max HR: " \o py_str(g("max_hr")) \o " bpm\n" ELSE "")
                 \o (IF has("hr_zones") /\ has("hr_zone_names")
                     THEN "- HR Zones:\n"
                          \o format_athlete_hr_zones(g("hr_zone_names").v, g("hr_zones").v, 1)
                     ELSE "")
                 \o "\n"
        power ==
            IF ~(has("ftp") \/ has("power_zones")) THEN ""
            ELSE "**Power**:\n"
                 \o (IF has("ftp") THEN "- FTP: " \o py_str(g("ftp")) \o " watts\n" ELSE "")
                 \o (IF has("w_prime") THEN "- W': " \o py_str(g("w_prime")) \o " joules\n" ELSE "")
                 \o (IF has("sweet_spot_min") /\ has("sweet_spot_max")
                     THEN "- Sweet Spot: " \o py_str(g("sweet_spot_min")) \o "-"
                          \o py_str(g("sweet_spot_max")) \o "% FTP\n"
                     ELSE "")
                 \o (IF has("power_zones") /\ has("power_zone_names")
                     THEN "- Power Zones:\n"
                          \o format_athlete_power_zones(g("power_zone_names").v, g("power_zones").v,
                                                        GetOr(sport_setting, "ftp", PyInt(0)).v, 1)
                     ELSE "")
                 \o "\n"
        pace_value == g("threshold_pace").v
        pace_units == GetOr(sport_setting, "pace_units", PyStr("MINS_KM")).v
        pace_display ==
            IF pace_units = "MINS_KM"
            THEN (IF pace_value > 0 THEN FixedQuot(1000, pace_value * 60, 2) ELSE "0.00") \o " min/km"
            ELSE IF pace_units = "SECS_100M"
            THEN (IF pace_value > 0 THEN FixedQuot(100, pace_value, 1) ELSE "0.0") \o " sec/100m"
            ELSE ToString(pace_value) \o ".00 " \o pace_units
        pace ==
            IF ~(has("threshold_pace") \/ has("pace_zones")) THEN ""
            ELSE "**Pace**:\n"
                 \o (IF has("threshold_pace") THEN "- Threshold Pace: " \o pace_display \o "\n" ELSE "")
                 \o (IF has("pace_zones") /\ has("pace_zone_names")
                     THEN "- Pace Zones:\n"
                          \o format_athlete_pace_zones(g("pace_zone_names").v, g("pace_zones").v, 1)
                     ELSE "")
                 \o "\n"
        training ==
            IF ~(has("warmup_time") \/ has("cooldown_time")) THEN ""
            ELSE "**Training Settings**:\n"
                 \o (IF has("warmup_time")
                     THEN "- Warmup Time: " \o ToString(g("warmup_time").v \div 60) \o " minutes\n"
                     ELSE "")
                 \o (IF has("cooldown_time")
                     THEN "- Cooldown Time: " \o ToString(g("cooldown_time").v \div 60) \o " minutes\n"
                     ELSE "")
                 \o "\n"
    IN IF ~Truthy(sport_types) THEN ""
       ELSE "### " \o sport_name \o "\n"
            \o "**Activity Types**: " \o JoinStr(StrsOf(sport_types.v), ", ") \o "\n\n"
            \o heart \o power \o pace \o training \o "---\n\n"

RECURSIVE format_athlete_sports(_)
format_athlete_sports(settings) ==
    IF settings = <<>> THEN ""
    ELSE format_athlete_sport(settings[1]) \o format_athlete_sports(Tail(settings))

\* faulty variant: only None is answered with the sentinel; an empty map
\* and a value that is no map are treated as a profile
format_athlete_data_none_only(athlete) ==
    IF IsNone(athlete) THEN Ok("No athlete data available")
    ELSE Ok("# Athlete Profile: Unknown\n\n## Basic Information")

format_athlete_data(athlete) ==
    IF ~Truthy(athlete) \/ ~IsDict(athlete) THEN Ok("No athlete data available")
    ELSE
    LET g(k) == Get(athlete, k)
        na(k) == py_str(GetOr(athlete, k, PyStr("N/A")))
        weight_str == IF Truthy(g("icu_weight")) \/ Truthy(g("weight"))
                      THEN py_str(GetOr(athlete, "icu_weight", GetOr(athlete, "weight", PyStr("N/A"))))
                           \o " kg"
                      ELSE "N/A"
        height_str == IF Truthy(g("height")) THEN na("height") \o " m" ELSE "N/A"
        places == FilterTruthy(<<g("city"), g("state"), g("country")>>)
        settings == g("sportSettings")
        head == "# Athlete Profile: " \o py_str(GetOr(athlete, "name", PyStr("Unknown"))) \o "\n\n"
                \o "## Basic Information\n"
                \o "- **ID**: " \o na("id") \o "\n"
                \o "- **Gender**: " \o na("sex") \o "\n"
                \o "- **Location**: " \o JoinStr(StrsOf(places), ", ") \o "\n"
                \o "- **Height**: " \o height_str \o "\n"
                \o "- **Weight**: " \o weight_str \o "\n"
                \o "- **Resting HR**: " \o na("icu_resting_hr") \o " bpm\n"
                \o "- **Date of Birth**: " \o na("icu_date_of_birth") \o "\n"
                \o "- **Timezone**: " \o na("timezone") \o "\n"
                \o "- **Units**: " \o na("measurement_preference") \o "\n\n"
        sports == IF HasKey(athlete, "sportSettings") /\ Truthy(settings)
                  THEN "## Sport-Specific Training Zones\n\n" \o format_athlete_sports(settings.v)
                  ELSE ""
        bio == IF Truthy(g("bio")) THEN "## Bio\n" \o py_str(g("bio")) \o "\n\n" ELSE ""
        more == "## Additional Information\n"
                \o (IF Truthy(g("plan")) THEN "- **Plan**: " \o py_str(g("plan")) \o "\n" ELSE "")
                \o (IF Truthy(g("icu_activated"))
                    THEN "- **Member Since**: "
                         \o SubSeq(g("icu_activated").v, 1, Min2(10, Len(g("icu_activated").v))) \o "\n"
                    ELSE "")
                \o (IF Truthy(g("website")) THEN "- **Website**: " \o py_str(g("website")) \o "\n" ELSE "")
    IN IF ~AllStr(places) THEN Exc("TypeError")
       ELSE IF HasKey(athlete, "sportSettings") /\ Truthy(settings)
               /\ (~IsList(settings) \/ \E i \in 1..Len(settings.v) : ~IsDict(settings.v[i]))
            THEN Exc(IF IsList(settings) \/ IsStr(settings) \/ IsDict(settings)
                     THEN "AttributeError" ELSE "TypeError")
       ELSE Ok(rstrip(head \o sports \o bio \o more))

-----------------------------------------------------------------------------
(* The tool handlers.  A handler runs up to its next "await
   make_intervals_request(...)" or to its end; each step below is what it
   does from its start, or from the gateway result r it was waiting for, given
   its arguments a and its local variables l. *)

\* the handler waits for the gateway's answer to req
Await(req, l) == [k |-> "await", req |-> req, l |-> l]
\* the handler returns v
Done(v, l) == [k |-> "return", v |-> v, l |-> l]
\* the handler ends with an exception it does not catch
Throw(exc, l) == [k |-> "raise", exc |-> exc, l |-> l]

\* the arguments of one make_intervals_request call, defaults filled in
Req(url, api_key, params, method, data) ==
    [url |-> url, api_key |-> api_key, params |-> params, method |-> method, data |-> data]

Fetch(url, api_key, params) == Req(url, api_key, params, "GET", PyNone)

NoAthleteId ==
    "Error: No athlete ID provided and no default ATHLETE_ID found in environment variables."

\* athlete_id if athlete_id is not None else ATHLETE_ID
athlete_id_or_default(athlete_id) ==
    IF ~IsNone(athlete_id) THEN athlete_id ELSE PyStr(ATHLETE_ID)

\* faulty variant: the guard "if not athlete_id_to_use" is missing
athlete_id_missing_never(athlete_id_to_use) == FALSE

\* if not athlete_id_to_use
athlete_id_missing(athlete_id_to_use) == ~Truthy(athlete_id_to_use)

\* isinstance(result, dict) and "error" in result
is_error(result) == IsDict(result) /\ HasKey(result, "error")

\* result.get("message", "Unknown error") and result.get("message"), as
\* they show in an f-string
error_message(result) == py_str(GetOr(result, "message", PyStr("Unknown error")))
error_message_or_none(result) == py_str(Get(result, "message"))

\* faulty variant: every text passes for a date
validate_date_any(date_str) == Ok(date_str)

validate_date(date_str) ==
    IF strptime_ymd(date_str).ok THEN Ok(date_str) ELSE Exc("ValueError")

\* the first list among the values of a dict, in key order
RECURSIVE first_list_value(_)
first_list_value(pairs) ==
    IF pairs = <<>> THEN PyNone
    ELSE IF IsList(pairs[1][2]) THEN pairs[1][2]
    ELSE first_list_value(Tail(pairs))

\* if isinstance(result, list): the dicts in it; elif a dict: the
\* dicts of its first list value, or the dict itself when none were found
\* and it has a "name", "startTime" or "distance" key
_parse_activities_from_result(result) ==
    IF IsList(result) THEN OnlyDicts(result.v)
    ELSE IF IsDict(result) THEN
        LET value == first_list_value(result.v)
            activities == IF IsList(value) THEN OnlyDicts(value.v) ELSE <<>>
        IN IF activities = <<>>
              /\ (HasKey(result, "name") \/ HasKey(result, "startTime") \/ HasKey(result, "distance"))
           THEN <<result>>
           ELSE activities
    ELSE <<>>

\* activity.get("name") and activity.get("name") != "Unnamed"
is_named(activity) == Truthy(Get(activity, "name")) /\ Get(activity, "name") # PyStr("Unnamed")

\* faulty variant: nothing is filtered out
_filter_named_activities_all(activities) == activities

RECURSIVE _filter_named_activities(_)
_filter_named_activities(activities) ==
    IF activities = <<>> THEN <<>>
    ELSE IF is_named(activities[1])
    THEN <<activities[1]>> \o _filter_named_activities(Tail(activities))
    ELSE _filter_named_activities(Tail(activities))

\* faulty variant: the list is not cut
take_all(activities, limit) == activities

\* activities[:limit] for limit >= 0
take(activities, limit) ==
    SubSeq(activities, 1, Min2(limit, Len(activities)))

\* the texts of two steps run one after the other, or the exception of the
\* first of them that raised
then_text(one, rest, before, between) ==
    IF one.k # "ok" THEN one
    ELSE IF rest.k # "ok" THEN rest
    ELSE Ok(before \o one.v \o between \o rest.v)

\* a text with a heading before it, or the exception in its place
headed(heading, text) == IF text.k = "ok" THEN Ok(heading \o text.v) ELSE text

\* the summaries of _format_activities_response, one per activity
RECURSIVE activity_summaries(_)
activity_summaries(activities) ==
    IF activities = <<>> THEN Ok("")
    ELSE then_text(IF IsDict(activities[1]) THEN format_activity_summary(activities[1])
                   ELSE Ok("Invalid activity format: " \o py_str(activities[1])),
                   activity_summaries(Tail(activities)), "\n\n", "")

_format_activities_response(activities, athlete_id, include_unnamed) ==
    IF activities = <<>> THEN
        IF include_unnamed
        THEN Ok("No valid activities found for athlete " \o py_str(athlete_id)
                \o " in the specified date range.")
        ELSE Ok("No named activities found for athlete " \o py_str(athlete_id)
                \o " in the specified date range. Try with include_unnamed=True to see all activities.")
    ELSE headed("Activities:", activity_summaries(activities))

\* a handler's last statement "return f(...)": the text, or f's exception
Finish(r, l) == IF r.k = "ok" THEN Done(PyStr(r.v), l) ELSE Throw(r.exc, l)

\* _fetch_more_activities from "if older_start >= older_end" to its request
_fetch_more_activities_window(athlete_id, api_key, api_limit, l, older_start, older_end) ==
    IF days_from_civil(older_start.y, older_start.m, older_start.d)
       >= days_from_civil(older_end.y, older_end.m, older_end.d)
    THEN Done(PyList(<<>>), l)
    ELSE Await(Fetch("/athlete/" \o py_str(athlete_id) \o "/activities", api_key,
                     PyDict(<< <<"oldest", PyStr(strftime_ymd(older_start))>>,
                               <<"newest", PyStr(strftime_ymd(older_end))>>,
                               <<"limit", PyInt(api_limit)>> >>)),
               l)

\* _fetch_more_activities after oldest_date = datetime.fromisoformat(start_date)
_fetch_more_activities_from(athlete_id, api_key, api_limit, l, oldest_date) ==
    IF ~oldest_date.ok THEN Throw("ValueError", l)
    ELSE _fetch_more_activities_window(athlete_id, api_key, api_limit, l,
                                       plus_days(oldest_date, -60), plus_days(oldest_date, -1))

\* _fetch_more_activities up to its request
_fetch_more_activities_start(athlete_id, start_date, api_key, api_limit, l) ==
    _fetch_more_activities_from(athlete_id, api_key, api_limit, l, fromisoformat(start_date))

\* _fetch_more_activities from its request on: the list it returns
_fetch_more_activities_resume(more_result) ==
    IF IsList(more_result)
    THEN IF \E i \in 1..Len(more_result.v) : ~IsDict(more_result.v[i])
         THEN Exc("AttributeError")
         ELSE Ok(_filter_named_activities(more_result.v))
    ELSE Ok(<<>>)

\* get_activities from its return statement on
get_activities_return(a, l, activities) ==
    Finish(_format_activities_response(activities, l.athlete_id_to_use, a.include_unnamed),
           [l EXCEPT !.activities = activities])

\* get_activities from "activities = activities[:limit]" on
get_activities_finish(a, l, activities) ==
    get_activities_return(a, l, take(activities, a.limit))

get_activities_start(a) ==
    LET athlete_id_to_use == athlete_id_or_default(a.athlete_id)
        start_date == IF ~Truthy(a.start_date) THEN strftime_ymd(plus_days(Now, -30))
                      ELSE a.start_date.v
        end_date == IF ~Truthy(a.end_date) THEN strftime_ymd(Now) ELSE a.end_date.v
        api_limit == IF ~a.include_unnamed THEN a.limit * 3 ELSE a.limit
        l == [at |-> "result", athlete_id_to_use |-> athlete_id_to_use, start_date |-> start_date,
              api_limit |-> api_limit, activities |-> <<>>]
    IN IF athlete_id_missing(athlete_id_to_use) THEN Done(PyStr(NoAthleteId), Unused)
       ELSE Await(Fetch("/athlete/" \o py_str(athlete_id_to_use) \o "/activities", a.api_key,
                        PyDict(<< <<"oldest", PyStr(start_date)>>, <<"newest", PyStr(end_date)>>,
                                  <<"limit", PyInt(api_limit)>> >>)),
                  l)

\* get_activities after "more_activities = await _fetch_more_activities(...)"
get_activities_extended(a, l, more_activities) ==
    IF more_activities.k # "ok" THEN Throw(more_activities.exc, l)
    ELSE get_activities_finish(a, l, l.activities \o more_activities.v)

\* get_activities after _fetch_more_activities when it returned without a
\* request: its list is empty
get_activities_more(a, l, named, more) ==
    IF more.k = "return" THEN get_activities_finish(a, l, named) ELSE more

\* get_activities from "if not activities" on, activities being the parsed
\* ones and named those of them that pass _filter_named_activities
get_activities_parsed(a, l, activities, named) ==
    IF activities = <<>>
    THEN Done(PyStr("No valid activities found for athlete " \o py_str(l.athlete_id_to_use)
                    \o " in the specified date range."), l)
    ELSE IF a.include_unnamed \/ Len(named) >= a.limit
    THEN get_activities_finish(a, l, IF a.include_unnamed THEN activities ELSE named)
    ELSE get_activities_more(a, l, named,
             _fetch_more_activities_start(l.athlete_id_to_use, l.start_date, a.api_key,
                                          l.api_limit,
                                          [l EXCEPT !.at = "more_result",
                                                    !.activities = named]))

get_activities_resume(a, l, r) ==
    IF l.at = "result" THEN
        IF is_error(r) THEN Done(PyStr("Error fetching activities: " \o error_message(r)), l)
        ELSE IF ~Truthy(r)
        THEN Done(PyStr("No activities found for athlete " \o py_str(l.athlete_id_to_use)
                        \o " in the specified date range."), l)
        ELSE get_activities_parsed(a, l, _parse_activities_from_result(r),
                                   _filter_named_activities(_parse_activities_from_result(r)))
    ELSE get_activities_extended(a, l, _fetch_more_activities_resume(r))

\* the power or heart-rate zone lines of get_activity_details
RECURSIVE zone_lines(_)
zone_lines(zones) ==
    IF zones = <<>> THEN Ok("")
    ELSE IF ~IsDict(zones[1]) THEN Exc("AttributeError")
    ELSE LET rest == zone_lines(Tail(zones))
         IN IF rest.k # "ok" THEN rest
            ELSE Ok("Zone " \o py_str(Get(zones[1], "number")) \o ": "
                    \o py_str(Get(zones[1], "secondsInZone")) \o " seconds\n" \o rest.v)

\* "for zone in zones.get(key, [])" with its lines
zone_block(zones, key) ==
    LET listed == GetOr(zones, key, PyList(<<>>))
    IN IF ~IsPair(listed) THEN Exc("TypeError") ELSE zone_lines(iter_items(listed))

get_activity_details_start(a) ==
    Await(Fetch("/activity/" \o py_str(a.activity_id), a.api_key, PyNone), [at |-> "result"])

get_activity_details_resume(a, l, r) ==
    IF is_error(r) THEN Done(PyStr("Error fetching activity details: " \o error_message(r)), l)
    ELSE IF ~Truthy(r)
    THEN Done(PyStr("No details found for activity " \o py_str(a.activity_id) \o "."), l)
    ELSE LET activity_data == IF IsList(r) THEN r.v[1] ELSE r
             detailed_view == format_activity_summary(activity_data)
             zones == Get(activity_data, "zones")
             power == zone_block(zones, "power")
             hr == zone_block(zones, "hr")
         IN IF ~IsDict(activity_data)
            THEN Done(PyStr("Invalid activity format for activity " \o py_str(a.activity_id) \o "."), l)
            ELSE IF detailed_view.k # "ok" THEN Throw(detailed_view.exc, l)
            ELSE IF ~HasKey(activity_data, "zones") THEN Done(PyStr(detailed_view.v), l)
            ELSE IF ~IsDict(zones) THEN Throw("AttributeError", l)
            ELSE IF power.k # "ok" THEN Throw(power.exc, l)
            ELSE IF hr.k # "ok" THEN Throw(hr.exc, l)
            ELSE Done(PyStr(detailed_view.v \o "\nPower Zones:\n" \o power.v
                            \o "\nHeart Rate Zones:\n" \o hr.v), l)

\* a call format_intervals(*argv): the function takes one argument
call_format_intervals(argv) ==
    IF Len(argv) # 1 THEN Exc("TypeError") ELSE format_intervals(argv[1])

\* a call format_event_summary(*argv): the function takes one argument
call_format_event_summary(argv) ==
    IF Len(argv) # 1 THEN Exc("TypeError") ELSE format_event_summary(argv[1])

get_activity_intervals_start(a) ==
    Await(Fetch("/activity/" \o py_str(a.activity_id) \o "/intervals", a.api_key, PyNone),
          [at |-> "result", result |-> PyNone])

get_activity_intervals_resume(a, l, r) ==
    IF l.at = "result" THEN
        IF is_error(r) THEN Done(PyStr("Error fetching intervals: " \o error_message(r)), l)
        ELSE IF ~Truthy(r)
        THEN Done(PyStr("No interval data found for activity " \o py_str(a.activity_id) \o "."), l)
        ELSE IF ~IsDict(r) \/ ~(HasKey(r, "icu_intervals") \/ HasKey(r, "icu_groups"))
        THEN Done(PyStr("No interval data or unrecognized format for activity "
                        \o py_str(a.activity_id) \o "."), l)
        ELSE Await(Fetch("/activity/" \o py_str(a.activity_id), a.api_key, PyNone),
                   [at |-> "activity_result", result |-> r])
    ELSE IF ~IsDict(r) THEN Throw("AttributeError", l)
    ELSE Finish(call_format_intervals(<<l.result, Get(r, "type")>>), l)

\* the event summaries of get_events, one per event that is a map
RECURSIVE event_summaries(_)
event_summaries(events) ==
    IF events = <<>> THEN Ok("")
    ELSE IF ~IsDict(events[1]) THEN event_summaries(Tail(events))
    ELSE then_text(call_format_event_summary(<<events[1]>>), event_summaries(Tail(events)),
                   "", "\n\n")

NoEventsFound(athlete_id_to_use) ==
    "No events found for athlete " \o py_str(athlete_id_to_use) \o " in the specified date range."

get_events_start(a) ==
    LET athlete_id_to_use == athlete_id_or_default(a.athlete_id)
        start_date == IF ~Truthy(a.start_date) THEN strftime_ymd(Now) ELSE a.start_date.v
        end_date == IF ~Truthy(a.end_date) THEN strftime_ymd(plus_days(Now, 30)) ELSE a.end_date.v
    IN IF athlete_id_missing(athlete_id_to_use) THEN Done(PyStr(NoAthleteId), Unused)
       ELSE Await(Fetch("/athlete/" \o py_str(athlete_id_to_use) \o "/events", a.api_key,
                        PyDict(<< <<"oldest", PyStr(start_date)>>, <<"newest", PyStr(end_date)>> >>)),
                  [at |-> "result", athlete_id_to_use |-> athlete_id_to_use])

get_events_resume(a, l, r) ==
    IF is_error(r) THEN Done(PyStr("Error fetching events: " \o error_message(r)), l)
    ELSE IF ~Truthy(r) \/ ~IsList(r) THEN Done(PyStr(NoEventsFound(l.athlete_id_to_use)), l)
    ELSE Finish(headed("Events:\n\n", event_summaries(r.v)), l)

\* the pairs of a dict literal whose condition holds: <<condition, key, value>>
RECURSIVE PairsIf(_)
PairsIf(entries) ==
    IF entries = <<>> THEN <<>>
    ELSE (IF entries[1][1] THEN << <<entries[1][2], entries[1][3]>> >> ELSE <<>>)
         \o PairsIf(Tail(entries))

list_events_start(a) ==
    LET athlete_id_to_use == athlete_id_or_default(a.athlete_id)
        params == PyDict(PairsIf(<< <<Truthy(a.start_date), "oldest", a.start_date>>,
                                    <<Truthy(a.end_date), "newest", a.end_date>>,
                                    <<Truthy(a.category), "category", a.category>>,
                                    <<a.limit # 0, "limit", PyInt(a.limit)>> >>))
    IN IF athlete_id_missing(athlete_id_to_use) THEN Done(PyStr(NoAthleteId), Unused)
       ELSE Await(Fetch("/athlete/" \o py_str(athlete_id_to_use) \o "/events", a.api_key, params),
                  [at |-> "result"])

list_events_resume(a, l, r) ==
    IF is_error(r) THEN Done(PyStr("Error fetching events: " \o error_message(r)), l)
    ELSE IF IsList(r) THEN Done(r, l)
    ELSE Done(PyStr("No events found or invalid response format"), l)

get_event_by_id_start(a) ==
    LET athlete_id_to_use == athlete_id_or_default(a.athlete_id)
    IN IF athlete_id_missing(athlete_id_to_use) THEN Done(PyStr(NoAthleteId), Unused)
       ELSE Await(Fetch("/athlete/" \o py_str(athlete_id_to_use) \o "/events/"
                        \o py_str(a.event_id), a.api_key, PyNone),
                  [at |-> "result"])

get_event_by_id_resume(a, l, r) ==
    IF is_error(r) THEN Done(PyStr("Error fetching event details: " \o error_message(r)), l)
    ELSE IF ~Truthy(r) THEN Done(PyStr("No details found for event " \o py_str(a.event_id) \o "."), l)
    ELSE IF ~IsDict(r) THEN Done(PyStr("Invalid event format for event " \o py_str(a.event_id) \o "."), l)
    ELSE Finish(format_event_details(r), l)

\* the entries of get_wellness_data for a dict result: each value, with the
\* date added when it is a map without one
RECURSIVE wellness_of_dict(_)
wellness_of_dict(pairs) ==
    IF pairs = <<>> THEN Ok("")
    ELSE then_text(format_wellness_entry(
                       IF IsDict(pairs[1][2]) /\ ~HasKey(pairs[1][2], "date")
                       THEN DictSet(pairs[1][2], "date", PyStr(pairs[1][1]))
                       ELSE pairs[1][2]),
                   wellness_of_dict(Tail(pairs)), "", "\n\n")

RECURSIVE wellness_of_list(_)
wellness_of_list(entries) ==
    IF entries = <<>> THEN Ok("")
    ELSE IF ~IsDict(entries[1]) THEN wellness_of_list(Tail(entries))
    ELSE then_text(format_wellness_entry(entries[1]), wellness_of_list(Tail(entries)),
                   "", "\n\n")

get_wellness_data_start(a) ==
    LET athlete_id_to_use == athlete_id_or_default(a.athlete_id)
        start_date == IF ~Truthy(a.start_date) THEN strftime_ymd(plus_days(Now, -30))
                      ELSE a.start_date.v
        end_date == IF ~Truthy(a.end_date) THEN strftime_ymd(Now) ELSE a.end_date.v
    IN IF athlete_id_missing(athlete_id_to_use) THEN Done(PyStr(NoAthleteId), Unused)
       ELSE Await(Fetch("/athlete/" \o py_str(athlete_id_to_use) \o "/wellness", a.api_key,
                        PyDict(<< <<"oldest", PyStr(start_date)>>, <<"newest", PyStr(end_date)>> >>)),
                  [at |-> "result", athlete_id_to_use |-> athlete_id_to_use])

get_wellness_data_resume(a, l, r) ==
    IF is_error(r) THEN Done(PyStr("Error fetching wellness data: " \o error_message_or_none(r)), l)
    ELSE IF ~Truthy(r)
    THEN Done(PyStr("No wellness data found for athlete " \o py_str(l.athlete_id_to_use)
                    \o " in the specified date range."), l)
    ELSE Finish(headed("Wellness Data:\n\n",
                       IF IsDict(r) THEN wellness_of_dict(r.v)
                       ELSE IF IsList(r) THEN wellness_of_list(r.v)
                       ELSE Ok("")), l)

\* any(keyword in name_lower for keyword in keywords)
AnyKeyword(name_lower, keywords) ==
    \E i \in 1..Len(keywords) : Contains(name_lower, keywords[i])

\* the keyword table of _resolve_workout_type, in its order
workout_type_mapping ==
    << <<"Ride", <<"bike", "cycle", "cycling", "ride">> >>,
       <<"Run", <<"run", "running", "jog", "jogging">> >>,
       <<"Swim", <<"swim", "swimming", "pool">> >>,
       <<"Walk", <<"walk", "walking", "hike", "hiking">> >>,
       <<"Row", <<"row", "rowing">> >> >>

\* faulty variant: the keywords are looked for in the name as it is written
_resolve_workout_type_cased(name, workout_type) ==
    IF Truthy(workout_type) THEN workout_type
    ELSE LET name_lower == IF Truthy(name) THEN name.v ELSE ""
             hits == {i \in 1..Len(workout_type_mapping) :
                        AnyKeyword(name_lower, workout_type_mapping[i][2])}
         IN IF hits = {} THEN PyStr("Ride")
            ELSE PyStr(workout_type_mapping[CHOOSE i \in hits : \A j \in hits : i <= j][1])

_resolve_workout_type(name, workout_type) ==
    IF Truthy(workout_type) THEN workout_type
    ELSE LET name_lower == IF Truthy(name) THEN Lower(name.v) ELSE ""
             hits == {i \in 1..Len(workout_type_mapping) :
                        AnyKeyword(name_lower, workout_type_mapping[i][2])}
         IN IF hits = {} THEN PyStr("Ride")
            ELSE PyStr(workout_type_mapping[CHOOSE i \in hits : \A j \in hits : i <= j][1])

delete_event_start(a) ==
    LET athlete_id_to_use == athlete_id_or_default(a.athlete_id)
    IN IF athlete_id_missing(athlete_id_to_use) THEN Done(PyStr(NoAthleteId), Unused)
       ELSE IF ~Truthy(a.event_id) THEN Done(PyStr("Error: No event ID provided."), Unused)
       ELSE Await(Req("/athlete/" \o py_str(athlete_id_to_use) \o "/events/" \o py_str(a.event_id),
                      a.api_key, PyNone, "DELETE", PyNone),
                  [at |-> "result"])

delete_event_resume(a, l, r) ==
    IF is_error(r) THEN Done(PyStr("Error deleting event: " \o error_message_or_none(r)), l)
    ELSE Done(PyStr(json_dumps_indent(r, 2)), l)

\* delete_events_by_date_range from the i-th event of its loop on
delete_events_next(a, l) ==
    IF l.i > Len(l.events)
    THEN Done(PyStr("Deleted " \o ToString(Len(l.events) - Len(l.failed_events))
                    \o " events. Failed to delete " \o ToString(Len(l.failed_events))
                    \o " events: " \o py_repr(PyList(l.failed_events))), l)
    ELSE IF ~IsDict(l.events[l.i]) THEN Throw("AttributeError", l)
    ELSE Await(Req("/athlete/" \o py_str(l.athlete_id_to_use) \o "/events/"
                   \o py_str(Get(l.events[l.i], "id")), a.api_key, PyNone, "DELETE", PyNone),
               l)

delete_events_by_date_range_start(a) ==
    LET athlete_id_to_use == athlete_id_or_default(a.athlete_id)
        oldest == validate_date(a.start_date.v)
        newest == validate_date(a.end_date.v)
    IN IF athlete_id_missing(athlete_id_to_use) THEN Done(PyStr(NoAthleteId), Unused)
       ELSE IF oldest.k # "ok" THEN Throw(oldest.exc, Unused)
       ELSE IF newest.k # "ok" THEN Throw(newest.exc, Unused)
       ELSE Await(Fetch("/athlete/" \o py_str(athlete_id_to_use) \o "/events", a.api_key,
                        PyDict(<< <<"oldest", PyStr(oldest.v)>>, <<"newest", PyStr(newest.v)>> >>)),
                  [at |-> "result", athlete_id_to_use |-> athlete_id_to_use, events |-> <<>>,
                   i |-> 1, failed_events |-> <<>>])

delete_events_by_date_range_resume(a, l, r) ==
    IF l.at = "result" THEN
        IF is_error(r) THEN Done(PyStr("Error deleting events: " \o error_message_or_none(r)), l)
        ELSE delete_events_next(a, [l EXCEPT !.at = "deleted",
                                             !.events = IF IsList(r) THEN r.v ELSE <<>>])
    ELSE delete_events_next(a, [l EXCEPT !.i = l.i + 1,
                                         !.failed_events =
                                             IF is_error(r)
                                             THEN Append(l.failed_events, Get(l.events[l.i], "id"))
                                             ELSE l.failed_events])

\* faulty variant: any event id that is given, even an empty one, selects PUT
event_method_given(event_id) == IF ~IsNone(event_id) THEN "PUT" ELSE "POST"

\* "PUT" if event_id else "POST"
event_method(event_id) == IF Truthy(event_id) THEN "PUT" ELSE "POST"

\* add_or_update_event; workout_doc is None in every invocation of the model
add_or_update_event_start(a) ==
    LET athlete_id == IF ~Truthy(a.athlete_id) THEN PyStr(ATHLETE_ID) ELSE a.athlete_id
        start_date == IF ~Truthy(a.start_date) THEN strftime_ymd(Now) ELSE a.start_date.v
        data == PyDict(<< <<"start_date_local", PyStr(start_date \o "T00:00:00")>>,
                          <<"category", PyStr("WORKOUT")>>,
                          <<"name", a.name>>,
                          <<"description", PyNone>>,
                          <<"type", _resolve_workout_type(a.name, a.workout_type)>>,
                          <<"moving_time", a.moving_time>>,
                          <<"distance", a.distance>> >>)
    IN IF ~Truthy(athlete_id) THEN Done(PyStr(NoAthleteId), Unused)
       ELSE Await(Req("/athlete/" \o py_str(athlete_id) \o "/events"
                      \o (IF Truthy(a.event_id) THEN "/" \o py_str(a.event_id) ELSE ""),
                      a.api_key, PyNone, event_method(a.event_id), data),
                  [at |-> "result", athlete_id |-> athlete_id, start_date |-> start_date,
                   data |-> data])

add_or_update_event_resume(a, l, r) ==
    LET action == IF Truthy(a.event_id) THEN "updated" ELSE "created"
    IN IF is_error(r)
       THEN Done(PyStr("Error " \o action \o " event: " \o error_message(r)
                       \o ", data used: " \o py_repr(l.data)), l)
       ELSE IF ~Truthy(r)
       THEN Done(PyStr("No events " \o action \o " for athlete " \o py_str(l.athlete_id) \o "."), l)
       ELSE IF IsDict(r)
       THEN Done(PyStr("Successfully " \o action \o " event: " \o json_dumps_indent(r, 2)), l)
       ELSE Done(PyStr("Event " \o action \o " successfully at " \o l.start_date), l)

get_athlete_start(a) ==
    LET athlete_id_to_use == athlete_id_or_default(a.athlete_id)
    IN IF athlete_id_missing(athlete_id_to_use) THEN Done(PyStr(NoAthleteId), Unused)
       ELSE Await(Fetch("/athlete/" \o py_str(athlete_id_to_use), a.api_key, PyDict(<<>>)),
                  [at |-> "result"])

get_athlete_resume(a, l, r) ==
    IF is_error(r) THEN Done(PyStr("Error fetching athlete data: " \o error_message(r)), l)
    ELSE IF ~IsDict(r) THEN Done(PyStr("Error: Invalid response format from Intervals.icu API"), l)
    ELSE Finish(format_athlete_data(r), l)

\* get_races from the i-th event of its loop on
RECURSIVE get_races_next(_, _), get_races_format(_, _, _)
get_races_next(a, l) ==
    IF l.i > Len(l.events) THEN Done(PyStr(l.races_summary), l)
    ELSE LET event == l.events[l.i]
             category == GetOr(event, "category", PyStr(""))
             shared_event_id == Get(event, "shared_event_id")
         IN IF ~IsDict(event) THEN get_races_next(a, [l EXCEPT !.i = l.i + 1])
            ELSE IF ~IsStr(category) THEN Throw("AttributeError", l)
            ELSE IF ~StartsWith(category.v, "RACE_") THEN get_races_next(a, [l EXCEPT !.i = l.i + 1])
            ELSE IF Truthy(shared_event_id)
            THEN Await(Fetch("/shared-event/" \o py_str(shared_event_id), a.api_key, PyNone),
                       [l EXCEPT !.at = "shared_event"])
            ELSE get_races_format(a, l, PyNone)

\* get_races from "races_summary += format_event_summary(event, shared_event)" on
get_races_format(a, l, shared_event) ==
    LET s == call_format_event_summary(<<l.events[l.i], shared_event>>)
    IN IF s.k # "ok" THEN Throw(s.exc, l)
       ELSE get_races_next(a, [l EXCEPT !.i = l.i + 1,
                                        !.races_summary = l.races_summary \o s.v \o "\n\n\n"])

get_races_start(a) ==
    LET athlete_id_to_use == athlete_id_or_default(a.athlete_id)
    IN IF athlete_id_missing(athlete_id_to_use) THEN Done(PyStr(NoAthleteId), Unused)
       ELSE Await(Fetch("/athlete/" \o py_str(athlete_id_to_use) \o "/events", a.api_key,
                        PyDict(<< <<"oldest", PyStr(strftime_ymd(Now))>>,
                                  <<"newest", PyStr(strftime_ymd(plus_days(Now, 356)))>> >>)),
                  [at |-> "result", athlete_id_to_use |-> athlete_id_to_use, events |-> <<>>,
                   i |-> 1, races_summary |-> ""])

get_races_resume(a, l, r) ==
    IF l.at = "result" THEN
        IF is_error(r) THEN Done(PyStr("Error fetching events: " \o error_message(r)), l)
        ELSE IF ~Truthy(r) \/ ~IsList(r) THEN Done(PyStr(NoEventsFound(l.athlete_id_to_use)), l)
        ELSE get_races_next(a, [l EXCEPT !.at = "events", !.events = r.v,
                                         !.races_summary = "Races:\n\n"])
    ELSE IF ~IsDict(r) THEN Throw("AssertionError", l)
    ELSE get_races_format(a, l, r)

\* what the curve tools hand back for a result that is no error record
list_of(result) ==
    IF IsDict(result) /\ HasKey(result, "list") THEN Get(result, "list") ELSE PyList(<<>>)

dict_or_empty(result) == IF IsDict(result) THEN result ELSE PyDict(<<>>)

list_or_empty(result) == IF IsList(result) THEN result ELSE PyList(<<>>)

get_power_curves_start(a) ==
    LET athlete_id_to_use == athlete_id_or_default(a.athlete_id)
    IN IF athlete_id_missing(athlete_id_to_use) THEN Done(PyStr(NoAthleteId), Unused)
       ELSE Await(Fetch("/athlete/" \o py_str(athlete_id_to_use) \o "/power-curves", a.api_key,
                        PyDict(<< <<"curves", a.curves>>, <<"type", a.type_>> >>)),
                  [at |-> "result"])

get_power_curves_resume(a, l, r) ==
    IF is_error(r) THEN Done(PyStr("Error fetching power curves: " \o error_message(r)), l)
    ELSE Done(list_of(r), l)

get_activity_power_curves_start(a) ==
    IF ~Truthy(a.activity_id) THEN Done(PyStr("Error: Activity ID is required."), Unused)
    ELSE Await(Fetch("/activity/" \o py_str(a.activity_id) \o "/power-curves", a.api_key,
                     PyDict(<< <<"type", a.type_>> >>)),
               [at |-> "result"])

get_activity_power_curves_resume(a, l, r) ==
    IF is_error(r) THEN Done(PyStr("Error fetching activity power curve: " \o error_message(r)), l)
    ELSE Done(list_or_empty(r), l)

get_pace_curves_start(a) ==
    LET athlete_id_to_use == athlete_id_or_default(a.athlete_id)
    IN IF athlete_id_missing(athlete_id_to_use) THEN Done(PyStr(NoAthleteId), Unused)
       ELSE Await(Fetch("/athlete/" \o py_str(athlete_id_to_use) \o "/pace-curves", a.api_key,
                        PyDict(<< <<"curves", a.curves>>, <<"type", a.type_>> >>)),
                  [at |-> "result"])

get_pace_curves_resume(a, l, r) ==
    IF is_error(r) THEN Done(PyStr("Error fetching pace curves: " \o error_message(r)), l)
    ELSE Done(list_of(r), l)

get_activity_pace_curve_start(a) ==
    IF ~Truthy(a.activity_id) THEN Done(PyStr("Error: Activity ID is required."), Unused)
    ELSE Await(Fetch("/activity/" \o py_str(a.activity_id) \o "/pace-curve.json", a.api_key,
                     PyDict(<< <<"gap", PyBool(a.gap)>> >>)),
               [at |-> "result"])

get_activity_pace_curve_resume(a, l, r) ==
    IF is_error(r) THEN Done(PyStr("Error fetching activity power curve: " \o error_message(r)), l)
    ELSE Done(dict_or_empty(r), l)

get_power_hr_curve_start(a) ==
    LET athlete_id_to_use == athlete_id_or_default(a.athlete_id)
        start_date == IF ~Truthy(a.start_date) THEN strftime_ymd(plus_days(Now, -30))
                      ELSE a.start_date.v
        end_date == IF ~Truthy(a.end_date) THEN strftime_ymd(Now) ELSE a.end_date.v
    IN IF athlete_id_missing(athlete_id_to_use) THEN Done(PyStr(NoAthleteId), Unused)
       ELSE Await(Fetch("/athlete/" \o py_str(athlete_id_to_use) \o "/power-hr-curve", a.api_key,
                        PyDict(<< <<"start", PyStr(start_date)>>, <<"end", PyStr(end_date)>> >>)),
                  [at |-> "result"])

get_power_hr_curve_resume(a, l, r) ==
    IF is_error(r) THEN Done(PyStr("Error fetching power_hr curve: " \o error_message_or_none(r)), l)
    ELSE Done(dict_or_empty(r), l)

get_activity_power_vs_hr_start(a) ==
    IF ~Truthy(a.activity_id) THEN Done(PyStr("Error: Activity ID is required."), Unused)
    ELSE Await(Fetch("/activity/" \o py_str(a.activity_id) \o "/power-vs-hr", a.api_key, PyNone),
               [at |-> "result"])

get_activity_power_vs_hr_resume(a, l, r) ==
    IF is_error(r)
    THEN Done(PyStr("Error fetching activity power vs HR data: " \o error_message_or_none(r)), l)
    ELSE Done(dict_or_empty(r), l)

get_activity_hr_curve_start(a) ==
    IF ~Truthy(a.activity_id) THEN Done(PyStr("Error: Activity ID is required."), Unused)
    ELSE Await(Fetch("/activity/" \o py_str(a.activity_id) \o "/hr-curve.json", a.api_key, PyNone),
               [at |-> "result"])

get_activity_hr_curve_resume(a, l, r) ==
    IF is_error(r) THEN Done(PyStr("Error fetching activity HR curve: " \o error_message_or_none(r)), l)
    ELSE Done(dict_or_empty(r), l)

\* faulty variant: the date is not checked before the POST
create_workout_start_unchecked(a) ==
    LET athlete_id_to_use == athlete_id_or_default(a.athlete_id)
        formatted_date == IF Len(a.date.v) = 10 THEN a.date.v \o "T00:00:00" ELSE a.date.v
        event_data == PyDict(<< <<"start_date_local", PyStr(formatted_date)>>,
                                <<"name", a.name>>,
                                <<"description", a.description>>,
                                <<"category", PyStr("WORKOUT")>>,
                                <<"type", a.workout_type>> >>)
    IN IF athlete_id_missing(athlete_id_to_use) THEN Done(PyStr(NoAthleteId), Unused)
       ELSE Await(Req("/athlete/" \o py_str(athlete_id_to_use) \o "/events", a.api_key, PyNone,
                      "POST", event_data),
                  [at |-> "result"])

create_workout_start(a) ==
    LET athlete_id_to_use == athlete_id_or_default(a.athlete_id)
        formatted_date == IF Len(a.date.v) = 10 THEN a.date.v \o "T00:00:00" ELSE a.date.v
        event_data == PyDict(<< <<"start_date_local", PyStr(formatted_date)>>,
                                <<"name", a.name>>,
                                <<"description", a.description>>,
                                <<"category", PyStr("WORKOUT")>>,
                                <<"type", a.workout_type>> >>)
    IN IF athlete_id_missing(athlete_id_to_use) THEN Done(PyStr(NoAthleteId), Unused)
       ELSE IF ~strptime_ymd(a.date.v).ok
       THEN Done(PyStr("Error: Date must be in YYYY-MM-DD format."), Unused)
       ELSE Await(Req("/athlete/" \o py_str(athlete_id_to_use) \o "/events", a.api_key, PyNone,
                      "POST", event_data),
                  [at |-> "result"])

create_workout_resume(a, l, r) ==
    IF is_error(r) THEN Done(PyStr("Error creating workout: " \o error_message(r)), l)
    ELSE IF IsDict(r) /\ HasKey(r, "id")
    THEN Done(PyStr("Successfully created workout '" \o py_str(a.name) \o "' on " \o py_str(a.date)
                    \o " (Event ID: " \o py_str(Get(r, "id")) \o ")"), l)
    ELSE Done(PyStr("Workout created but response format was unexpected."), l)

-----------------------------------------------------------------------------
(* Invocations of the tool handlers *)

MaxLimit == 2

AthleteIds == {PyNone, PyStr(""), PyStr("i7")}
ApiKeys == {PyNone, PyStr("")}
ActivityIds == {PyStr(""), PyStr("a5")}
EventIds == {PyNone, PyStr(""), PyStr("e9")}

\* <<start_date, end_date>> as a caller may pass them: both omitted, both
\* well-formed, a start date that is no YYYY-MM-DD date
DateWindows ==
    { <<PyNone, PyNone>>,
      <<PyStr("2024-03-01"), PyStr("2024-03-31")>>,
      <<PyStr("2024/03/01"), PyNone>> }

\* the same for the tools whose dates are required
RequiredDateWindows ==
    { <<PyStr("2024-03-01"), PyStr("2024-03-31")>>,
      <<PyStr("2024/03/01"), PyStr("2024-03-31")>>,
      <<PyStr("2024-03-01"), PyStr("yesterday")>> }

get_activities_args ==
    { [athlete_id |-> i, api_key |-> k, start_date |-> w[1], end_date |-> w[2], limit |-> n,
       include_unnamed |-> u] :
        i \in AthleteIds, k \in ApiKeys, w \in DateWindows, n \in 0..MaxLimit, u \in BOOLEAN }

activity_args == { [activity_id |-> i, api_key |-> k] : i \in ActivityIds, k \in ApiKeys }

window_args ==
    { [athlete_id |-> i, api_key |-> k, start_date |-> w[1], end_date |-> w[2]] :
        i \in AthleteIds, k \in ApiKeys, w \in DateWindows }

list_events_args ==
    { [athlete_id |-> i, api_key |-> k, start_date |-> w[1], end_date |-> w[2], category |-> c,
       limit |-> n] :
        i \in AthleteIds, k \in ApiKeys, w \in DateWindows, c \in {PyNone, PyStr("WORKOUT")},
        n \in 0..MaxLimit }

event_args ==
    { [event_id |-> e, athlete_id |-> i, api_key |-> k] :
        e \in EventIds \ {PyNone}, i \in AthleteIds, k \in ApiKeys }

delete_events_by_date_range_args ==
    { [start_date |-> w[1], end_date |-> w[2], athlete_id |-> i, api_key |-> k] :
        w \in RequiredDateWindows, i \in AthleteIds, k \in ApiKeys }

add_or_update_event_args ==
    { [workout_type |-> t, name |-> PyStr("Morning Jog"), athlete_id |-> i, api_key |-> k,
       event_id |-> e, start_date |-> d, moving_time |-> PyInt(1800), distance |-> PyNone] :
        t \in {PyStr(""), PyStr("Swim")}, i \in AthleteIds, k \in ApiKeys, e \in EventIds,
        d \in {PyNone, PyStr("2024-03-01"), PyStr("2024/03/01")} }

athlete_args == { [athlete_id |-> i, api_key |-> k] : i \in AthleteIds, k \in ApiKeys }

curves_args ==
    { [athlete_id |-> i, api_key |-> k, curves |-> PyStr("42d"), type_ |-> PyStr("Ride")] :
        i \in AthleteIds, k \in ApiKeys }

activity_curves_args ==
    { [activity_id |-> i, api_key |-> k, type_ |-> PyStr("power"), gap |-> g] :
        i \in ActivityIds, k \in ApiKeys, g \in BOOLEAN }

create_workout_args ==
    { [name |-> PyStr("Tempo"), description |-> PyStr("3x10min"), date |-> d, athlete_id |-> i,
       api_key |-> k, workout_type |-> PyStr("Ride")] :
        d \in {PyStr("2024-03-01"), PyStr("2024-3-1"), PyStr("03/01/2024")},
        i \in AthleteIds, k \in ApiKeys }

\* the handlers that take an athlete_id
AthleteTools ==
    { "get_activities", "get_events", "list_events", "get_event_by_id", "get_wellness_data",
      "delete_event", "delete_events_by_date_range", "add_or_update_event", "get_athlete",
      "get_races", "get_power_curves", "get_pace_curves", "get_power_hr_curve", "create_workout" }

\* a handler from the gateway result r it awaited to its next await or its end
Resume(tool, a, l, r) ==
    CASE tool = "get_activities" -> get_activities_resume(a, l, r)
      [] tool = "get_activity_details" -> get_activity_details_resume(a, l, r)
      [] tool = "get_activity_intervals" -> get_activity_intervals_resume(a, l, r)
      [] tool = "get_events" -> get_events_resume(a, l, r)
      [] tool = "list_events" -> list_events_resume(a, l, r)
      [] tool = "get_event_by_id" -> get_event_by_id_resume(a, l, r)
      [] tool = "get_wellness_data" -> get_wellness_data_resume(a, l, r)
      [] tool = "delete_event" -> delete_event_resume(a, l, r)
      [] tool = "delete_events_by_date_range" -> delete_events_by_date_range_resume(a, l, r)
      [] tool = "add_or_update_event" -> add_or_update_event_resume(a, l, r)
      [] tool = "get_athlete" -> get_athlete_resume(a, l, r)
      [] tool = "get_races" -> get_races_resume(a, l, r)
      [] tool = "get_power_curves" -> get_power_curves_resume(a, l, r)
      [] tool = "get_activity_power_curves" -> get_activity_power_curves_resume(a, l, r)
      [] tool = "get_pace_curves" -> get_pace_curves_resume(a, l, r)
      [] tool = "get_activity_pace_curve" -> get_activity_pace_curve_resume(a, l, r)
      [] tool = "get_power_hr_curve" -> get_power_hr_curve_resume(a, l, r)
      [] tool = "get_activity_power_vs_hr" -> get_activity_power_vs_hr_resume(a, l, r)
      [] tool = "get_activity_hr_curve" -> get_activity_hr_curve_resume(a, l, r)
      [] tool = "create_workout" -> create_workout_resume(a, l, r)

\* an exception that leaves the gateway inside a handler: add_or_update_event
\* catches ValueError, no other handler catches anything
Raised(tool, a, l, e) ==
    IF tool = "add_or_update_event" /\ IsInstance(e.exc, "ValueError")
    THEN Done(PyStr("Error: " \o e.msg), l)
    ELSE Throw(e.exc, l)

\* the handler's state after a step
Proceed(step) ==
    /\ pc' = IF step.k = "await" THEN "awaiting" ELSE "done"
    /\ pending' = IF step.k = "await" THEN step.req ELSE Unused
    /\ locals' = step.l
    /\ ret' = CASE step.k = "await" -> Unused
                [] step.k = "return" -> Return(step.v)
                [] step.k = "raise" -> Raise(step.exc, "")

\* The handlers that send requests are modelled; get_current_date_and_time_info,
\* calculate_date_info and get_workout_format_examples send none and are left out.

\* a caller's invocation of tool with arguments a has run to step: the
\* handler's first await or its end
Call(tool, a, step) ==
    /\ inv' = [tool |-> tool, args |-> a]
    /\ Proceed(step)
    /\ calls' = <<>>
    /\ UNCHANGED <<tasks, cfgvars, gwvars, fnvars>>

get_activities ==
    /\ pc = "idle"
    /\ \E a \in get_activities_args : Call("get_activities", a, get_activities_start(a))

get_activity_details ==
    /\ pc = "idle"
    /\ \E a \in activity_args : Call("get_activity_details", a, get_activity_details_start(a))

get_activity_intervals ==
    /\ pc = "idle"
    /\ \E a \in activity_args : Call("get_activity_intervals", a, get_activity_intervals_start(a))

get_events ==
    /\ pc = "idle"
    /\ \E a \in window_args : Call("get_events", a, get_events_start(a))

list_events ==
    /\ pc = "idle"
    /\ \E a \in list_events_args : Call("list_events", a, list_events_start(a))

get_event_by_id ==
    /\ pc = "idle"
    /\ \E a \in event_args : Call("get_event_by_id", a, get_event_by_id_start(a))

get_wellness_data ==
    /\ pc = "idle"
    /\ \E a \in window_args : Call("get_wellness_data", a, get_wellness_data_start(a))

delete_event ==
    /\ pc = "idle"
    /\ \E a \in event_args : Call("delete_event", a, delete_event_start(a))

delete_events_by_date_range ==
    /\ pc = "idle"
    /\ \E a \in delete_events_by_date_range_args : Call("delete_events_by_date_range", a, delete_events_by_date_range_start(a))

add_or_update_event ==
    /\ pc = "idle"
    /\ \E a \in add_or_update_event_args : Call("add_or_update_event", a, add_or_update_event_start(a))

get_athlete ==
    /\ pc = "idle"
    /\ \E a \in athlete_args : Call("get_athlete", a, get_athlete_start(a))

get_races ==
    /\ pc = "idle"
    /\ \E a \in athlete_args : Call("get_races", a, get_races_start(a))

get_power_curves ==
    /\ pc = "idle"
    /\ \E a \in curves_args : Call("get_power_curves", a, get_power_curves_start(a))

get_activity_power_curves ==
    /\ pc = "idle"
    /\ \E a \in activity_curves_args : Call("get_activity_power_curves", a, get_activity_power_curves_start(a))

get_pace_curves ==
    /\ pc = "idle"
    /\ \E a \in curves_args : Call("get_pace_curves", a, get_pace_curves_start(a))

get_activity_pace_curve ==
    /\ pc = "idle"
    /\ \E a \in activity_curves_args : Call("get_activity_pace_curve", a, get_activity_pace_curve_start(a))

get_power_hr_curve ==
    /\ pc = "idle"
    /\ \E a \in window_args : Call("get_power_hr_curve", a, get_power_hr_curve_start(a))

get_activity_power_vs_hr ==
    /\ pc = "idle"
    /\ \E a \in activity_args : Call("get_activity_power_vs_hr", a, get_activity_power_vs_hr_start(a))

get_activity_hr_curve ==
    /\ pc = "idle"
    /\ \E a \in activity_args : Call("get_activity_hr_curve", a, get_activity_hr_curve_start(a))

create_workout ==
    /\ pc = "idle"
    /\ \E a \in create_workout_args : Call("create_workout", a, create_workout_start(a))

\* what the upstream may answer to a handler's request
HandlerOutcomes ==
    {Response(200, json_dumps(j)) : j \in JsonUniverse}
    \cup { Response(200, "Bad Gateway"),
           Response(401, "{}"),
           Response(500, ""),
           ClientRaises("ConnectError", "All connection attempts failed") }

\* the awaited make_intervals_request call completes and the handler runs on
Respond ==
    /\ pc = "awaiting"
    /\ \E outcome \in HandlerOutcomes :
        LET g == make_intervals_request(pending.url, pending.api_key, pending.params,
                                        pending.method, pending.data, outcome)
        IN /\ calls' = Append(calls, [req |-> pending, sent |-> g.sent, result |-> g.out])
           /\ Proceed(IF g.out.k = "return"
                      THEN Resume(inv.tool, inv.args, locals, g.out.v)
                      ELSE Raised(inv.tool, inv.args, locals, g.out))
    /\ UNCHANGED <<inv, tasks, cfgvars, gwvars, fnvars>>

\* the caller has the result; nothing of the invocation is kept
Finished ==
    /\ pc = "done"
    /\ pc' = "idle"
    /\ inv' = Unused
    /\ locals' = Unused
    /\ pending' = Unused
    /\ calls' = <<>>
    /\ ret' = Unused
    /\ UNCHANGED <<tasks, cfgvars, gwvars, fnvars>>

\* ATHLETE_ID passes the module's check when it loads; the test suite also
\* runs the handlers with ATHLETE_ID replaced by "" (tests/test_server.py)
Init ==
    /\ API_KEY = "test"
    /\ ATHLETE_ID \in {"i1", ""}
    /\ gw = Unused
    /\ HandlersIdle
    /\ fn_in = Unused
    /\ fn_out = Unused

Next ==
    \/ get_activities
    \/ get_activity_details
    \/ get_activity_intervals
    \/ get_events
    \/ list_events
    \/ get_event_by_id
    \/ get_wellness_data
    \/ delete_event
    \/ delete_events_by_date_range
    \/ add_or_update_event
    \/ get_athlete
    \/ get_races
    \/ get_power_curves
    \/ get_activity_power_curves
    \/ get_pace_curves
    \/ get_activity_pace_curve
    \/ get_power_hr_curve
    \/ get_activity_power_vs_hr
    \/ get_activity_hr_curve
    \/ create_workout
    \/ Respond
    \/ Finished

Spec == Init /\ [][Next]_vars

-----------------------------------------------------------------------------
(* Handler invocations that run concurrently.  The event loop runs every tool
   call as a coroutine of its own and switches between them only where one
   awaits make_intervals_request; what a coroutine keeps across the await is
   its own frame.  Checked under SpecConcurrent. *)

\* the calls the concurrent callers make
ConcurrentCalls ==
    { [tool |-> "get_athlete", args |-> a] :
        a \in { x \in athlete_args : x.api_key = PyNone /\ x.athlete_id # PyStr("") } }
    \cup { [tool |-> "delete_events_by_date_range", args |-> a] :
             a \in { x \in delete_events_by_date_range_args :
                       /\ x.api_key = PyNone
                       /\ x.athlete_id = PyNone
                       /\ x.start_date = PyStr("2024-03-01")
                       /\ x.end_date = PyStr("2024-03-31") } }
    \cup { [tool |-> "get_activities", args |-> a] :
             a \in { x \in get_activities_args :
                       /\ x.api_key = PyNone
                       /\ x.athlete_id = PyStr("i7")
                       /\ x.start_date = PyStr("2024-03-01")
                       /\ x.end_date = PyStr("2024-03-31")
                       /\ x.limit = 2
                       /\ ~x.include_unnamed } }

\* what the upstream answers to them
ConcurrentOutcomes ==
    { Response(200, json_dumps(PyList(<<EvWorkout, EvRaceShared>>))),
      Response(500, "") }

\* a handler from its call to its first await or its end
Start(tool, a) ==
    CASE tool = "get_athlete" -> get_athlete_start(a)
      [] tool = "delete_events_by_date_range" -> delete_events_by_date_range_start(a)
      [] tool = "get_activities" -> get_activities_start(a)

\* invocation t after a step of its handler
Proceeded(t, step) ==
    [t EXCEPT !.pc = IF step.k = "await" THEN "awaiting" ELSE "done",
              !.pending = IF step.k = "await" THEN step.req ELSE Unused,
              !.locals = step.l,
              !.ret = CASE step.k = "await" -> Unused
                        [] step.k = "return" -> Return(step.v)
                        [] step.k = "raise" -> Raise(step.exc, "")]

\* the invocation of tool with arguments a at its first await or its end
Started(tool, a) ==
    Proceeded([IdleTask EXCEPT !.inv = [tool |-> tool, args |-> a]], Start(tool, a))

\* invocation t after the gateway call it awaited came back as g
ResumedWith(t, req, outcome, g) ==
    Proceeded([t EXCEPT !.calls = Append(@, [req |-> req, outcome |-> outcome, sent |-> g.sent,
                                             result |-> g.out])],
              IF g.out.k = "return"
              THEN Resume(t.inv.tool, t.inv.args, t.locals, g.out.v)
              ELSE Raised(t.inv.tool, t.inv.args, t.locals, g.out))

\* invocation t after the upstream answered the request req with outcome
Resumed(t, req, outcome) ==
    ResumedWith(t, req, outcome,
                make_intervals_request(req.url, req.api_key, req.params, req.method, req.data,
                                       outcome))

\* faulty variant: the result of a gateway call resumes the next coroutine
\* instead of the one that made the call
Receiver_next(i) == (i % NumTasks) + 1

\* the coroutine that is resumed with the result of the gateway call made by
\* coroutine i: "response = await httpx_client.request(...)" binds a local of
\* the caller's own frame
Receiver(i) == i

\* a caller invokes a tool while other invocations may be suspended
TaskCall ==
    /\ \E i \in TaskIds, c \in ConcurrentCalls :
        /\ tasks[i].pc = "idle"
        /\ tasks' = [tasks EXCEPT ![i] = Started(c.tool, c.args)]
    /\ UNCHANGED <<pc, inv, locals, pending, calls, ret, cfgvars, gwvars, fnvars>>

\* the gateway call some suspended invocation awaits completes and that
\* invocation runs on to its next await or its end
TaskRespond ==
    /\ \E i \in TaskIds, outcome \in ConcurrentOutcomes :
        /\ tasks[i].pc = "awaiting"
        /\ tasks[Receiver(i)].pc = "awaiting"
        /\ tasks' = [tasks EXCEPT ![Receiver(i)] =
                        Resumed(tasks[Receiver(i)], tasks[i].pending, outcome)]
    /\ UNCHANGED <<pc, inv, locals, pending, calls, ret, cfgvars, gwvars, fnvars>>

\* a caller has its result; nothing of the invocation is kept
TaskFinished ==
    /\ \E i \in TaskIds :
        /\ tasks[i].pc = "done"
        /\ tasks' = [tasks EXCEPT ![i] = IdleTask]
    /\ UNCHANGED <<pc, inv, locals, pending, calls, ret, cfgvars, gwvars, fnvars>>

NextConcurrent == TaskCall \/ TaskRespond \/ TaskFinished

SpecConcurrent == InitGateway /\ [][NextConcurrent]_vars

\* invocation t run with nothing beside it, the upstream answering its
\* requests with the outcomes in order
RECURSIVE RunAlone(_, _)
RunAlone(t, outcomes) ==
    IF outcomes = <<>> \/ t.pc # "awaiting" THEN t
    ELSE RunAlone(Resumed(t, t.pending, outcomes[1]), Tail(outcomes))

\* the outcomes invocation t has been resumed with
OutcomesOf(t) == [k \in 1..Len(t.calls) |-> t.calls[k].outcome]

-----------------------------------------------------------------------------
(* Claims about the gateway, checked under SpecGateway *)

GwCalled == gw # Unused

IsErrorRecord(v) ==
    /\ IsDict(v)
    /\ Get(v, "error") = PyBool(TRUE)
    /\ IsStr(Get(v, "message"))

UnauthorizedText == "401 Unauthorized: Please check your API key."

\* C1: every response with status 401, whatever its body, makes the gateway
\* return the error record with the static Unauthorized message and
\* status_code 401.
C1_Unauthorized401 ==
    (GwCalled /\ gw.sent # <<>> /\ gw.outcome.k = "response" /\ gw.outcome.status = 401)
        => gw.out = Return(StatusErrorRecord(401, UnauthorizedText))

\* C2: the gateway never raises: for every transport outcome it returns the
\* decoded payload (a 2xx response with an empty or JSON body) or a record
\* with error = true and a message.
C2_GatewayNeverRaises ==
    GwCalled =>
        /\ gw.out.k = "return"
        /\ \/ IsErrorRecord(gw.out.v)
           \/ /\ gw.sent # <<>>
              /\ gw.outcome.k = "response"
              /\ gw.outcome.status \in 200..299
              /\ \/ gw.outcome.content = "" /\ gw.out.v = PyDict(<<>>)
                 \/ gw.outcome.content # "" /\ json_dumps(gw.out.v) = gw.outcome.content

C2_Witness ==
    /\ GwCalled
    /\ gw.outcome.k = "raise"
    /\ gw.outcome.exc = "HTTPError"
    /\ gw.sent # <<>>
    /\ gw.out = Return(ErrorRecord("HTTP client error: client failure"))

\* C4: the gateway authenticates with the per-call api_key when one is given
\* and with the process-wide API_KEY otherwise; when the resolved key is
\* empty it returns the 'API key is required' record and sends no request.
C4_KeyResolution ==
    GwCalled =>
        LET expected == IF gw.api_key # PyNone THEN gw.api_key.v ELSE API_KEY
        IN IF expected = ""
           THEN /\ gw.sent = <<>>
                /\ gw.out = Return(ErrorRecord("API key is required. Set API_KEY env var or pass api_key"))
           ELSE /\ Len(gw.sent) = 1
                /\ gw.sent[1].auth = <<"API_KEY", expected>>

C4_Witness ==
    /\ GwCalled
    /\ gw.api_key = PyStr("")
    /\ API_KEY = "test"
    /\ gw.sent = <<>>
    /\ IsErrorRecord(gw.out.v)

\* the header name is among the headers of the sent request q
HasHeader(q, name) == \E i \in 1..Len(q.headers) : q.headers[i][1] = name

\* C15: a request carries a JSON body and a Content-Type: application/json
\* header only when the method is POST or PUT; a GET or DELETE request
\* never carries a body, even when a data argument is supplied.
C15_BodyOnlyForPostPut ==
    GwCalled =>
        \A i \in 1..Len(gw.sent) :
            /\ gw.sent[i].method = gw.method
            /\ (gw.sent[i].content # PyNone \/ HasHeader(gw.sent[i], "Content-Type"))
                 => gw.method \in {"POST", "PUT"}
            /\ gw.sent[i].content # PyNone
                 => /\ gw.sent[i].content = PyStr(json_dumps(gw.data))
                    /\ <<"Content-Type", "application/json">>
                         \in {gw.sent[i].headers[j] : j \in 1..Len(gw.sent[i].headers)}
            /\ gw.method \in {"GET", "DELETE"} => gw.sent[i].content = PyNone

\* a DELETE called with a data argument has been sent without a body
C15_Witness ==
    /\ GwCalled
    /\ gw.method = "DELETE"
    /\ gw.data # PyNone
    /\ Len(gw.sent) = 1
    /\ gw.sent[1].content = PyNone
    /\ ~HasHeader(gw.sent[1], "Content-Type")

-----------------------------------------------------------------------------
(* Claims about the tool handlers, checked under Spec *)

Invoked(tool) == pc # "idle" /\ inv.tool = tool

Returned(tool) == pc = "done" /\ inv.tool = tool

\* no override that is a usable id and no configured default
NoAthleteAvailable == ~Truthy(inv.args.athlete_id) /\ ATHLETE_ID = ""

\* a record the gateway produces for a failed request
GatewayFailed(i) == IsErrorRecord(calls[i].result.v)

\* C3: no handler ever raises: whatever its arguments (malformed dates
\* included) and whatever the gateway returns, an invocation ends by
\* returning a value.
C3_NoHandlerRaises ==
    pc = "done" => ret.k = "return"

\* C5: every handler that takes an athlete id, invoked while no athlete id
\* is available (no override, no configured default), returns the fixed
\* 'No athlete ID provided...' text and makes no gateway call.
C5_NoAthleteIdNoCall ==
    (pc # "idle" /\ inv.tool \in AthleteTools /\ NoAthleteAvailable)
        => /\ pc = "done"
           /\ ret = Return(PyStr(NoAthleteId))
           /\ calls = <<>>

C5_Witness ==
    /\ Returned("get_power_hr_curve")
    /\ NoAthleteAvailable
    /\ inv.args.athlete_id = PyNone
    /\ ret = Return(PyStr(NoAthleteId))
    /\ calls = <<>>

\* C6: a gateway error record is terminal for the handler that received it:
\* the handler returns a text 'Error <doing-X>: <message>' carrying the
\* record's message (the per-event DELETE calls of
\* delete_events_by_date_range excepted).
C6_ErrorsTerminal ==
    \A i \in 1..Len(calls) :
        (/\ pc = "done"
         /\ GatewayFailed(i)
         /\ ~(inv.tool = "delete_events_by_date_range" /\ calls[i].req.method = "DELETE"))
            => /\ i = Len(calls)
               /\ ret.k = "return"
               /\ IsStr(ret.v)
               /\ StartsWith(ret.v.v, "Error ")
               /\ Contains(ret.v.v, ": " \o Get(calls[i].result.v, "message").v)

\* the named activities of the first window of a get_activities invocation
FirstWindowNamed ==
    _filter_named_activities(_parse_activities_from_result(calls[1].result.v))

\* C7: get_activities with include_unnamed = false makes exactly one more
\* fetch whenever its first fetch succeeded but left fewer than limit named
\* activities, and never makes more than two requests.
C7_OneFallbackFetch ==
    (Returned("get_activities") /\ calls # <<>>)
        => /\ Len(calls) <= 2
           /\ (/\ ~inv.args.include_unnamed
               /\ ~is_error(calls[1].result.v)
               /\ Len(FirstWindowNamed) < inv.args.limit)
                  => Len(calls) = 2

\* the activities a get_activities result lists
ListsActivities == Returned("get_activities") /\ ret.k = "return" /\ StartsWith(ret.v.v, "Activities:")

\* C8: for every limit >= 0 get_activities lists at most limit activities,
\* and with include_unnamed = false none of them is named 'Unnamed' or has a
\* missing or empty name.
C8_AtMostLimitNamed ==
    (Returned("get_activities") /\ ret.k = "return")
        => IF ListsActivities
           THEN /\ ret.v.v = _format_activities_response(locals.activities, locals.athlete_id_to_use,
                                                         inv.args.include_unnamed).v
                /\ Len(locals.activities) <= inv.args.limit
                /\ ~inv.args.include_unnamed
                      => \A i \in 1..Len(locals.activities) :
                            /\ HasKey(locals.activities[i], "name")
                            /\ IsStr(Get(locals.activities[i], "name"))
                            /\ Get(locals.activities[i], "name").v \notin {"", "Unnamed"}
           ELSE ~Contains(ret.v.v, "Activity: ")

C8_Witness ==
    /\ ListsActivities
    /\ ~inv.args.include_unnamed
    /\ inv.args.limit = 1
    /\ Len(calls) = 1
    /\ Len(_parse_activities_from_result(calls[1].result.v)) = 2
    /\ Len(FirstWindowNamed) = 1
    /\ Len(locals.activities) = 1

\* the request add_or_update_event makes for an athlete and an event path
EventRequest(verb, path) ==
    /\ Len(calls) = 1
    /\ calls[1].req.method = verb
    /\ calls[1].req.url = path

-----------------------------------------------------------------------------
(* _parse_activities_from_result as a function of the gateway's result,
   checked under SpecParse *)

MaxFields == 3

\* fields a gateway payload may carry, with the values they take
Fields ==
    { <<"id", PyInt(1)>>,
      <<"name", PyStr("Solo")>>,
      <<"name", PyNone>>,
      <<"startTime", PyStr("2024-03-01T08:00:00")>>,
      <<"distance", PyInt(10)>>,
      <<"tags", PyList(<<>>)>>,
      <<"tags", PyList(<<PyStr("race")>>)>>,
      <<"laps", PyList(<<Dict1("lap", PyInt(1))>>)>>,
      <<"activities", PyList(<<ActMorning, ActUnnamed>>)>> }

\* the maps of at most n fields with distinct keys, in every key order
RECURSIVE MapsOf(_)
MapsOf(n) ==
    IF n = 0 THEN {PyDict(<<>>)}
    ELSE LET shorter == MapsOf(n - 1)
         IN shorter \cup { PyDict(Append(m.v, f)) : m \in { x \in shorter : Len(x.v) = n - 1 },
                                                       f \in Fields }

DistinctKeys(m) == \A i, j \in 1..Len(m.v) : m.v[i][1] = m.v[j][1] => i = j

ParseInputs ==
    { m \in MapsOf(MaxFields) : DistinctKeys(m) }
        \cup {PyNone, PyStr("Bad Gateway"), PyList(<<>>), PyList(<<ActMorning, PyInt(5)>>)}

ParseActivities ==
    /\ fn_in = Unused
    /\ \E result \in ParseInputs :
        /\ fn_in' = result
        /\ fn_out' = PyList(_parse_activities_from_result(result))
    /\ UNCHANGED <<cfgvars, gwvars, hvars>>

\* the caller takes the list; the function keeps no state between calls
ParseReturned ==
    /\ fn_in # Unused
    /\ fn_in' = Unused
    /\ fn_out' = Unused
    /\ UNCHANGED <<cfgvars, gwvars, hvars>>

NextParse == ParseActivities \/ ParseReturned

SpecParse == InitGateway /\ [][NextParse]_vars

\* a map with a "name", "startTime" or "distance" key
BareActivity(m) ==
    IsDict(m) /\ (HasKey(m, "name") \/ HasKey(m, "startTime") \/ HasKey(m, "distance"))

\* C9: a bare single activity (a map with a name, startTime or
\* distance key), whatever other fields it carries, is normalised into a
\* one-element list holding that map.
C9_BareActivityIsOneElementList ==
    (fn_in # Unused /\ BareActivity(fn_in)) => fn_out = PyList(<<fn_in>>)

-----------------------------------------------------------------------------
(* Claims about delete_events_by_date_range, checked under Spec *)

\* the listing request of the invocation was answered with a list of maps
ListingReturnedEvents ==
    /\ Returned("delete_events_by_date_range")
    /\ Len(calls) >= 1
    /\ calls[1].req.method = "GET"
    /\ calls[1].result.k = "return"
    /\ IsList(calls[1].result.v)
    /\ \A i \in 1..Len(calls[1].result.v.v) : IsDict(calls[1].result.v.v[i])

\* the events of the listing response
ListedEvents == calls[1].result.v.v

\* the ids of the events from the i-th on whose DELETE, the (i+1)-th call of
\* the invocation, was answered with an error record
RECURSIVE FailedIdsFrom(_)
FailedIdsFrom(i) ==
    IF i > Len(ListedEvents) \/ i + 1 > Len(calls) THEN <<>>
    ELSE (IF GatewayFailed(i + 1) THEN <<Get(ListedEvents[i], "id")>> ELSE <<>>)
         \o FailedIdsFrom(i + 1)

\* the i-th call after the listing is the DELETE of the i-th listed event
DeletesListedEvent(i) ==
    /\ calls[i + 1].req.method = "DELETE"
    /\ calls[i + 1].req.url
         = "/athlete/" \o py_str(athlete_id_or_default(inv.args.athlete_id)) \o "/events/"
           \o py_str(Get(ListedEvents[i], "id"))

\* C11: when the listing returns n events, exactly n DELETE requests are
\* issued, one per event in list order, whichever of them fail; the
\* reported deleted count plus failed count is n and the listed failed ids
\* are exactly the ids whose DELETE returned an error record.
C11_BulkDeleteReport ==
    ListingReturnedEvents =>
        /\ Len(calls) = Len(ListedEvents) + 1
        /\ \A i \in 1..Len(ListedEvents) : DeletesListedEvent(i)
        /\ ret = Return(PyStr(
               "Deleted " \o ToString(Len(ListedEvents) - Len(FailedIdsFrom(1)))
               \o " events. Failed to delete " \o ToString(Len(FailedIdsFrom(1)))
               \o " events: " \o py_repr(PyList(FailedIdsFrom(1)))))

-----------------------------------------------------------------------------
(* formatting.Section as a function of its arguments, checked under SpecReport *)

\* the maps a section is given as data
SectionData ==
    { PyNone,
      PyDict(<<>>),
      Dict1("average_watts", PyInt(200)),
      Dict1("average_watts", PyNone),
      PyDict(<< <<"average_watts", PyInt(200)>>, <<"average_heartrate", PyInt(150)>> >>) }

\* the append calls of a section's body
SectionBodies ==
    { <<>>,
      << A(<<L("Average Power: "), F("average_watts"), L(" watts")>>) >>,
      << A(<<L("Average Power: "), F("average_watts"), L(" watts")>>),
         A(<<L("Heart Rate: Avg "), F("average_heartrate"), L(" bpm")>>) >>,
      << AN(<<L("Duration: "), F("elapsed_time"), L(" seconds")>>, PyInt(0)) >>,
      << AV(<<L("Intervals: "), P0>>, PyInt(3)) >>,
      << AK(<<L("Date: "), P0>>, <<"start_date_local", "date">>) >> }

SectionHeadings == {PyNone, PyStr("Power Metrics:")}

\* the lists a section is opened on: the caller's shared list, empty or with
\* the lines of the sections before
SharedLists == { <<>>, <<"Event Details:", "ID: 7">> }

\* the sections a nested section is opened under: without lines yet, the
\* heading still pending, or with lines
ParentSections ==
    { Section(<<>>, "", PyStr("Individual Intervals:"), "", PyNone),
      append_all(Section(<<>>, "", PyStr("[1] Rep 1 (Unknown)"), "", PyNone),
                 << A(<<L("Duration: 0 seconds")>>) >>),
      append_all(Section(<<>>, "", PyStr("Interval Groups:"), "- ", PyNone),
                 << A(<<L("Distance: 1000 meters")>>) >>) }

\* the append call c adds a line to a section whose data is data
Emits(data, c) == append_line(data, c).k = "line"

\* "with Section(lines, heading=, data=) as s:" with the appends of body, on
\* the caller's list: the list after the with statement
section_on_list(lines, heading, data, body) ==
    append_all(Section(lines, "", heading, "", data), body).lines

\* "with Section(parent=, heading=, data=) as s:" with the appends of body:
\* the parent after the with statement
section_under_parent(parent, heading, data, body) ==
    Section_exit(append_all(Section(<<>>, parent.indent, heading, "", data), body), parent)

\* a section is opened on a shared list, filled and closed
SectionOnList ==
    /\ fn_in = Unused
    /\ \E lines \in SharedLists, heading \in SectionHeadings, data \in SectionData,
          body \in SectionBodies :
        /\ fn_in' = [op |-> "Section", parent |-> FALSE, before |-> lines, heading |-> heading,
                     data |-> data, body |-> body]
        /\ fn_out' = [lines |-> section_on_list(lines, heading, data, body)]
    /\ UNCHANGED <<cfgvars, gwvars, hvars>>

\* a section is opened under a parent, filled and closed
SectionUnderParent ==
    /\ fn_in = Unused
    /\ \E parent \in ParentSections, heading \in SectionHeadings, data \in SectionData,
          body \in SectionBodies :
        /\ fn_in' = [op |-> "Section", parent |-> TRUE, before |-> parent.lines,
                     heading |-> heading, data |-> data, body |-> body]
        /\ fn_out' = [lines |-> section_under_parent(parent, heading, data, body).lines]
    /\ UNCHANGED <<cfgvars, gwvars, hvars>>

\* the maps a section that is appended to holds as data
AppendData ==
    { PyDict(<<>>),
      Dict1("weight", PyInt(70)),
      Dict1("weight", PyNone),
      PyDict(<< <<"systolic", PyInt(120)>>, <<"diastolic", PyInt(80)>> >>),
      Dict1("systolic", PyInt(120)),
      PyDict(<< <<"average_watts", PyInt(200)>>, <<"elapsed_time", PyInt(60)>> >>),
      PyDict(<< <<"average_watts", PyInt(200)>>, <<"average_watts_kg", PyInt(3)>> >>),
      PyDict(<< <<"perceived_exertion", PyInt(7)>>, <<"icu_rpe", PyInt(5)>> >>),
      PyDict(<< <<"perceived_exertion", PyNone>>, <<"icu_rpe", PyInt(5)>> >>),
      Dict1("icu_rpe", PyInt(5)),
      Dict1("perceived_exertion", PyInt(0)),
      PyDict(<< <<"type", PyStr("Ride")>>, <<"label", PyStr("Rep 1")>>,
                <<"date", PyStr("2024-03-01")>> >>) }

\* append calls of the kinds the formatters make
AppendCalls ==
    { A(<<L("Weight: "), F("weight"), L(" kg")>>),
      A(<<L("Blood Pressure: "), F("systolic"), L("/"), F("diastolic"), L(" mmHg")>>),
      AD(<<L("Average Power: "), F("average_watts"), L(" watts ("), F("average_watts_kg"),
           L(" W/kg)")>>, Dict1("average_watts_kg", PyInt(0))),
      AN(<<L("Duration: "), F("elapsed_time"), L(" seconds (moving: "), F("moving_time"),
           L(" seconds)")>>, PyInt(0)),
      AN(<<L("Elevation Gain: "), P0, L(" meters")>>, PyInt(0)),
      AK(<<L("RPE: "), P0, L("/10")>>, <<"perceived_exertion", "icu_rpe">>),
      AK(<<L("Date: "), P0>>, <<"start_date_local", "date">>),
      AV(<<L("Intervals: "), P0>>, PyInt(3)),
      A(<<L("Status: "), P0>>),
      A(<<>>),
      AN(<<P0, L(" to "), P0, L(" of "), P0>>, PyInt(0)),
      AN(<<F("weight"), L(" "), F("weight"), L(" "), F("bmi"), L(" "), P0>>, PyInt(0)),
      AN(<<F("bmi"), L("/"), F("fat"), L("/"), F("bmi")>>, PyStr("N/A")),
      AppendCall(<<L("["), F("i"), L("] "), F("label"), L(" ("), F("type"), L(")")>>, <<>>,
                 PyNone, PyNone, PyNone,
                 PyDict(<< <<"label", PyStr("Group 1")>>, <<"type", PyStr("Unknown")>> >>),
                 Dict1("i", PyInt(1))),
      AppendCall(<<L("Type: "), F("type")>>, <<>>, PyNone, PyNone, PyNone, NoKw,
                 Dict1("type", PyStr("Race"))) }
    \cup { AppendCall(<<F("type"), L(": eFTP = "), FS("eftp", ".0f"), L(" W")>>, <<>>, PyNone,
                      sport, PyNone, NoKw, NoKw) :
             sport \in { PyDict(<< <<"type", PyStr("Run")>>, <<"eftp", PyInt(250)>> >>),
                         PyDict(<< <<"type", PyStr("Run")>>, <<"eftp", PyNone>> >>),
                         Dict1("eftp", PyInt(250)) } }
    \cup { AppendCall(<<L("Type: "), F("type")>>, <<>>, PyNone, data, PyNone, defaults, kwargs) :
             data \in {PyNone, Dict1("type", PyStr("Run")), Dict1("type", PyNone)},
             defaults \in {NoKw, Dict1("type", PyStr("Unknown"))},
             kwargs \in {NoKw, Dict1("type", PyStr("Race"))} }

\* one call of Section.append on a section that is open
SectionAppend ==
    /\ fn_in = Unused
    /\ \E lines \in SharedLists, heading \in SectionHeadings, indent \in {"", "- "},
          data \in AppendData, c \in AppendCalls :
        /\ fn_in' = [op |-> "append", self |-> Section(lines, "", heading, indent, data),
                     call |-> c]
        /\ fn_out' = [self |-> append(Section(lines, "", heading, indent, data), c),
                      iters |-> append_line(Section(lines, "", heading, indent, data).data, c).iters]
    /\ UNCHANGED <<cfgvars, gwvars, hvars>>

\* activities as the upstream may describe them
ActivityInputs ==
    { PyDict(<< <<"name", PyStr("Morning Ride")>> >> \o rpe \o other) :
        rpe \in { <<>>,
                  << <<"perceived_exertion", PyInt(7)>> >>,
                  << <<"icu_rpe", PyInt(5)>> >>,
                  << <<"perceived_exertion", PyInt(7)>>, <<"icu_rpe", PyInt(5)>> >>,
                  << <<"perceived_exertion", PyNone>>, <<"icu_rpe", PyInt(5)>> >>,
                  << <<"perceived_exertion", PyInt(0)>> >> },
        other \in { <<>>,
                    << <<"calories", PyInt(500)>> >>,
                    << <<"startTime", PyStr("2024-03-01T07:30:00Z")>>, <<"feel", PyInt(4)>> >> } }

\* format_activity_summary is applied to an activity; left is the caller's
\* map as the call leaves it: Section copies the map it is given
\* (process_data), and of the formatters only format_wellness_entry assigns
\* into its argument
FormatActivitySummary ==
    /\ fn_in = Unused
    /\ \E activity \in ActivityInputs :
        /\ fn_in' = [op |-> "format_activity_summary", arg |-> activity, left |-> activity]
        /\ fn_out' = format_activity_summary(activity)
    /\ UNCHANGED <<cfgvars, gwvars, hvars>>

\* the longest zone table an athlete input carries
MaxZones == 3

\* the increasing arrays of 1..MaxZones of the values
ZoneArrays(values) ==
    { [i \in 1..Len(s) |-> PyInt(s[i])] :
        s \in { t \in UNION { [1..k -> values] : k \in 1..MaxZones } :
                  \A i \in 1..(Len(t) - 1) : t[i] < t[i + 1] } }

\* the first k zone names with the given prefix
ZoneNames(prefix, k) == [i \in 1..k |-> PyStr(prefix \o ToString(i))]

\* a zone table of one sport setting: the zones under key, the names under
\* names_key, after the setting's own fields
ZoneTables(fields, key, names_key, prefix, values) ==
    { fields \o << <<key, PyList(zones)>>, <<names_key, PyList(ZoneNames(prefix, k))>> >> :
        zones \in ZoneArrays(values), k \in 1..MaxZones }

\* sport settings as the upstream may describe them, each with one zone table
SportSettingInputs ==
    { PyDict(<< <<"types", PyList(<<PyStr("Ride")>>)>> >> \o table) :
        table \in ZoneTables(<< <<"lthr", PyInt(160)>> >>, "hr_zones", "hr_zone_names", "H",
                             {130, 145, 155, 165})
                  \cup ZoneTables(<< <<"ftp", PyInt(200)>> >>, "power_zones", "power_zone_names",
                                  "Z", {55, 75, 90, 999})
                  \cup ZoneTables(<<>>, "power_zones", "power_zone_names", "Z", {55, 75, 90, 999})
                  \cup ZoneTables(<< <<"threshold_pace", PyInt(4)>> >>, "pace_zones",
                                  "pace_zone_names", "P", {80, 90, 100, 999}) }

\* what format_athlete_data may be handed: the upstream's answer, whatever
\* it is
AthleteInputs ==
    { PyNone, PyDict(<<>>), PyStr("invalid"), PyStr(""), PyList(<<>>), PyList(<<PyInt(1)>>),
      PyInt(0), PyInt(5), PyBool(TRUE), PyBool(FALSE),
      PyDict(<< <<"name", PyStr("Test Athlete")>> >>),
      PyDict(<< <<"id", PyNone>> >>),
      PyDict(<< <<"name", PyStr("No athlete data available")>> >>),
      PyDict(<< <<"name", PyStr("Test Athlete")>>, <<"sportSettings", PyList(<<>>)>> >>) }
    \cup { PyDict(<< <<"name", PyStr("Test Athlete")>>, <<"sportSettings", PyList(<<setting>>)>> >>) :
             setting \in SportSettingInputs }

\* format_athlete_data is applied to an upstream answer
FormatAthleteData ==
    /\ fn_in = Unused
    /\ \E athlete \in AthleteInputs :
        /\ fn_in' = [op |-> "format_athlete_data", arg |-> athlete, left |-> athlete]
        /\ fn_out' = format_athlete_data(athlete)
    /\ UNCHANGED <<cfgvars, gwvars, hvars>>

\* wellness entries as the upstream, or get_wellness_data on its behalf, may
\* describe them
WellnessInputs ==
    { PyDict(day \o ctl \o other) :
        day \in { <<>>,
                  << <<"date", PyStr("2024-01-01")>> >>,
                  << <<"id", PyStr("2024-01-01")>> >>,
                  << <<"id", PyStr("2024-01-01")>>, <<"date", PyStr("2024-01-02")>> >> },
        ctl \in { <<>>, << <<"ctl", PyInt(70)>> >>, << <<"ctl", PyNone>> >>,
                  << <<"ctl", PyInt(0)>> >> },
        other \in { <<>>,
                    << <<"weight", PyInt(70)>> >>,
                    << <<"sleepSecs", PyInt(28800)>>, <<"weight", PyInt(70)>> >> } }

\* format_wellness_entry is applied to an entry
FormatWellnessEntry ==
    /\ fn_in = Unused
    /\ \E entries \in WellnessInputs :
        /\ fn_in' = [op |-> "format_wellness_entry", arg |-> entries,
                     left |-> format_wellness_entry_entries(entries)]
        /\ fn_out' = format_wellness_entry(entries)
    /\ UNCHANGED <<cfgvars, gwvars, hvars>>

\* events as the upstream may describe them
EventInputs ==
    { PyDict(<< <<"id", PyInt(11)>>, <<"date", PyStr("2024-01-01")>> >> \o workout \o race \o type) :
        workout \in { <<>>, << <<"workout", PyNone>> >>,
                      << <<"workout", Dict1("sport", PyStr("Ride"))>> >> },
        race \in { <<>>, << <<"race", PyBool(TRUE)>> >>, << <<"race", PyBool(FALSE)>> >> },
        type \in { <<>>, << <<"type", PyStr("Ride")>> >>, << <<"type", PyNone>> >> } }

\* format_event_summary is applied to an event
FormatEventSummary ==
    /\ fn_in = Unused
    /\ \E event \in EventInputs :
        /\ fn_in' = [op |-> "format_event_summary", arg |-> event, left |-> event]
        /\ fn_out' = format_event_summary(event)
    /\ UNCHANGED <<cfgvars, gwvars, hvars>>

\* the caller goes on; a section keeps nothing beyond the lists it wrote
ReportReturned ==
    /\ fn_in # Unused
    /\ fn_in' = Unused
    /\ fn_out' = Unused
    /\ UNCHANGED <<cfgvars, gwvars, hvars>>

NextReport ==
    \/ SectionOnList
    \/ SectionUnderParent
    \/ SectionAppend
    \/ FormatActivitySummary
    \/ FormatAthleteData
    \/ FormatWellnessEntry
    \/ FormatEventSummary
    \/ ReportReturned

SpecReport == InitGateway /\ [][NextReport]_vars

\* the section of fn_in produced no content line
SectionWasEmpty ==
    /\ fn_in # Unused
    /\ fn_in.op = "Section"
    /\ IsNone(fn_in.data) \/ IsDict(fn_in.data)
    /\ \A i \in 1..Len(fn_in.body) :
         ~Emits(PyDict(IF IsNone(fn_in.data) THEN <<>> ELSE DropNone(fn_in.data.v)),
                fn_in.body[i])

\* C12: a Section that produces no content line contributes nothing: after
\* it is closed, the list it writes into (the shared list, or its parent's
\* lines when nested via parent=) is exactly what it was before the section
\* was opened.
C12_EmptySectionAddsNothing ==
    SectionWasEmpty => fn_out.lines = fn_in.before

\* an append call has been made
Appended == fn_in # Unused /\ fn_in.op = "append"

\* {**self.data, **self.process_data(data), **kwargs} of the call in fn_in
MergedData ==
    DictMerge(DictMerge(fn_in.self.data,
                        IF IsNone(fn_in.call.data) THEN PyDict(<<>>)
                        ELSE PyDict(DropNone(fn_in.call.data.v))),
              fn_in.call.kwargs)

\* part i of the template names a field that the merged data does not
\* hold with a value and that no default of the call stands in for
UnresolvedField(i) ==
    /\ fn_in.call.fmt[i].k = "field"
    /\ IsNone(Get(MergedData, fn_in.call.fmt[i].s))
    /\ ~HasKey(fn_in.call.defaults, fn_in.call.fmt[i].s)

RECURSIVE FirstPresent(_, _)
FirstPresent(keys, data) ==
    IF keys = <<>> THEN PyNone
    ELSE IF HasKey(data, keys[1]) /\ ~IsNone(Get(data, keys[1])) THEN Get(data, keys[1])
    ELSE FirstPresent(Tail(keys), data)

\* the template with v in the place of its {} fields
RECURSIVE Rendered(_, _)
Rendered(fmt, v) ==
    IF fmt = <<>> THEN ""
    ELSE (IF fmt[1].k = "lit" THEN fmt[1].s ELSE py_str(v)) \o Rendered(Tail(fmt), v)

\* an append call with fallback keys and nothing else has been made
AppendedWithKeys ==
    /\ Appended
    /\ fn_in.call.value_key # <<>>
    /\ IsNone(fn_in.call.value) /\ IsNone(fn_in.call.none_val)

\* format_activity_summary has been applied to a map
FormattedActivity == fn_in # Unused /\ fn_in.op = "format_activity_summary"

\* C14: an append with an ordered list of fallback keys emits its line with
\* the value of the first listed key present in the data and drops the line
\* only when none is present; format_activity_summary emits 'RPE: <v>/10'
\* with v from perceived_exertion, else from icu_rpe.
C14_FallbackKeys ==
    /\ AppendedWithKeys =>
         fn_out.self.lines =
            IF IsNone(FirstPresent(fn_in.call.value_key, MergedData)) THEN fn_in.self.lines
            ELSE fn_in.self.lines \o fn_in.self.heading_lines
                 \o <<fn_in.self.indent
                      \o Rendered(fn_in.call.fmt, FirstPresent(fn_in.call.value_key, MergedData))>>
    /\ (/\ FormattedActivity
        /\ ~IsNone(FirstPresent(<<"perceived_exertion", "icu_rpe">>, fn_in.arg)))
       => /\ fn_out.k = "ok"
          /\ Contains(fn_out.v,
                      "RPE: " \o py_str(FirstPresent(<<"perceived_exertion", "icu_rpe">>,
                                                     fn_in.arg)) \o "/10")

\* format_athlete_data has been applied
FormattedAthlete == fn_in # Unused /\ fn_in.op = "format_athlete_data"

\* C17: format_athlete_data returns exactly 'No athlete data available' for
\* every input that is null, an empty map, or not a map, and never that
\* string for a non-empty map.
C17_AthleteSentinel ==
    FormattedAthlete =>
        (fn_out = Ok("No athlete data available"))
            <=> (fn_in.arg.t # "dict" \/ fn_in.arg.v = <<>>)

\* a string, which is no map, was answered with the sentinel
C17_Witness ==
    /\ FormattedAthlete
    /\ fn_in.arg = PyStr("invalid")
    /\ fn_out = Ok("No athlete data available")

\* a non-empty map was rendered as a profile
C17_WitnessProfile ==
    /\ FormattedAthlete
    /\ fn_in.arg = PyDict(<< <<"name", PyStr("No athlete data available")>> >>)
    /\ fn_out.k = "ok"
    /\ fn_out.v # "No athlete data available"

\* format_wellness_entry has been applied
FormattedWellness == fn_in # Unused /\ fn_in.op = "format_wellness_entry"

\* C18: format_wellness_entry renders the entry's date: for every wellness
\* entry that has a date field, the output contains the line 'Date: <date>'
\* (and 'Fitness (CTL): <ctl>' when ctl is present).
C18_WellnessDateLine ==
    (FormattedWellness /\ HasKey(fn_in.arg, "date")) =>
        /\ fn_out.k = "ok"
        /\ Contains(fn_out.v, "Date: " \o py_str(Get(fn_in.arg, "date")))
        /\ ~IsNone(Get(fn_in.arg, "ctl"))
             => Contains(fn_out.v, "Fitness (CTL): " \o py_str(Get(fn_in.arg, "ctl")))

\* the zone tables of a sport setting: the key of the zones, the key of the
\* names, and what follows the bounds of an unbounded and of a closed zone
ZoneKinds ==
    { [key |-> "hr_zones", names |-> "hr_zone_names", open |-> "+ bpm", closed |-> " bpm"],
      [key |-> "power_zones", names |-> "power_zone_names", open |-> "%+ FTP",
       closed |-> "% FTP"],
      [key |-> "pace_zones", names |-> "pace_zone_names", open |-> "%+ threshold",
       closed |-> ".0% threshold"] }

\* format_athlete_data has been applied to an athlete with a sport setting
FormattedZones ==
    /\ FormattedAthlete
    /\ IsDict(fn_in.arg)
    /\ Truthy(Get(fn_in.arg, "sportSettings"))

\* the sport setting of the athlete in fn_in
ZoneSetting == Get(fn_in.arg, "sportSettings").v[1]

\* the i-th of n rendered zones as the claim describes it
ZoneRange(kind, names, zones, n, i) ==
    "**" \o names[i].v \o "**: "
    \o ToString(IF i = 1 THEN 1 ELSE zones[i - 1].v + 1)
    \o (IF i = n THEN kind.open ELSE "-" \o ToString(zones[i].v) \o kind.closed)

\* the text shows every rendered zone of the table as the claim describes it
ZonesAsClaimed(kind, names, zones) ==
    \A i \in 1..Min2(Len(names), Len(zones)) :
        Contains(fn_out.v, ZoneRange(kind, names, zones, Min2(Len(names), Len(zones)), i))

\* C19: in format_athlete_data, for each HR, power and pace zone table
\* (zones array with its names array, values bounded integers), the last
\* zone rendered is shown as unbounded ('<min>+') and every earlier zone as
\* a closed range whose lower bound is the previous zone's upper bound plus
\* 1 (1 for the first zone).
C19_ZoneRanges ==
    FormattedZones =>
        /\ fn_out.k = "ok"
        /\ \A kind \in ZoneKinds :
             HasKey(ZoneSetting, kind.key)
                => ZonesAsClaimed(kind, Get(ZoneSetting, kind.names).v,
                                  Get(ZoneSetting, kind.key).v)

\* the value the sources of an append call give the name, the explicit
\* keyword argument before the call's data map, that before the section's
\* data map, that before the template defaults; a source holds the name when
\* it has it with a value
Resolved(name) ==
    IF HasKey(fn_in.call.kwargs, name) THEN Get(fn_in.call.kwargs, name)
    ELSE IF IsDict(fn_in.call.data) /\ ~IsNone(Get(fn_in.call.data, name))
    THEN Get(fn_in.call.data, name)
    ELSE IF ~IsNone(Get(fn_in.self.data, name)) THEN Get(fn_in.self.data, name)
    ELSE Get(fn_in.call.defaults, name)

\* the template with every named field replaced by what its sources give
RECURSIVE RenderedByName(_)
RenderedByName(fmt) ==
    IF fmt = <<>> THEN ""
    ELSE (IF fmt[1].k = "lit" THEN fmt[1].s ELSE py_str(Resolved(fmt[1].s)))
         \o RenderedByName(Tail(fmt))

\* an append call whose template has only literal text and named fields
\* without format spec, each of which some source holds
AppendedNamedFields ==
    /\ Appended
    /\ fn_in.call.value_key = <<>>
    /\ IsNone(fn_in.call.value) /\ IsNone(fn_in.call.none_val)
    /\ IsNone(fn_in.call.data) \/ IsDict(fn_in.call.data)
    /\ \A i \in 1..Len(fn_in.call.fmt) :
         /\ fn_in.call.fmt[i].k \in {"lit", "field"}
         /\ fn_in.call.fmt[i].spec = ""
         /\ fn_in.call.fmt[i].k = "field" => ~IsNone(Resolved(fn_in.call.fmt[i].s))

\* format_event_summary has been applied
FormattedEvent == fn_in # Unused /\ fn_in.op = "format_event_summary"

\* C25: when a placeholder name is available from several sources,
\* Section.append resolves it with the precedence explicit keyword argument >
\* per-call data map > the section's data map > template defaults;
\* consequently format_event_summary's 'Type:' line shows 'Workout' if the
\* event has a workout, else 'Race' if it has a race, else 'Other', never the
\* event's own type field.
C25_AppendPrecedence ==
    /\ AppendedNamedFields =>
         fn_out.self.lines = fn_in.self.lines \o fn_in.self.heading_lines
                             \o <<fn_in.self.indent \o RenderedByName(fn_in.call.fmt)>>
    /\ FormattedEvent =>
         /\ fn_out.k = "ok"
         /\ Contains(fn_out.v,
                     "Type: " \o (IF Truthy(Get(fn_in.arg, "workout")) THEN "Workout"
                                  ELSE IF Truthy(Get(fn_in.arg, "race")) THEN "Race"
                                  ELSE "Other"))
         /\ ~Contains(fn_out.v, "Type: Ride")

\* all four sources hold the name and the line shows the keyword argument
C25_Witness ==
    /\ Appended
    /\ fn_in.call.fmt = <<L("Type: "), F("type")>>
    /\ Get(fn_in.call.kwargs, "type") = PyStr("Race")
    /\ fn_in.call.data = Dict1("type", PyStr("Run"))
    /\ Get(fn_in.self.data, "type") = PyStr("Ride")
    /\ Get(fn_in.call.defaults, "type") = PyStr("Unknown")
    /\ fn_out.self.lines # <<>>
    /\ fn_out.self.lines[Len(fn_out.self.lines)] = fn_in.self.indent \o "Type: Race"

\* an event with a race, no workout and a type of its own is shown as a race
C25_WitnessEvent ==
    /\ FormattedEvent
    /\ Get(fn_in.arg, "race") = PyBool(TRUE)
    /\ ~Truthy(Get(fn_in.arg, "workout"))
    /\ Get(fn_in.arg, "type") = PyStr("Ride")
    /\ Contains(fn_out.v, "Type: Race")

\* a formatter has been applied to a map of the caller
FormattedMap ==
    /\ fn_in # Unused
    /\ fn_in.op \in {"format_activity_summary", "format_wellness_entry", "format_event_summary",
                     "format_athlete_data"}
    /\ IsDict(fn_in.arg)

\* C27: formatting has no effect on its input: after any formatter returns,
\* the map passed in by the caller has exactly the keys and values it had
\* before the call.
C27_FormattersLeaveInput ==
    FormattedMap => fn_in.left = fn_in.arg

\* the distinct placeholders of a template: its field names, and {} if it
\* has one
Placeholders(fmt) ==
    { fmt[i].s : i \in { j \in 1..Len(fmt) : fmt[j].k = "field" } }
    \cup (IF \E i \in 1..Len(fmt) : fmt[i].k = "auto" THEN {"{}"} ELSE {})

\* C28: Section.append always terminates: for every template, data map,
\* defaults and none_val, its retry loop runs at most one iteration more
\* than the number of distinct placeholders in the template, and the call
\* ends having added either zero lines or exactly one line (with the heading
\* lines that were pending before it).
C28_AppendTerminates ==
    Appended =>
        /\ fn_out.iters <= Cardinality(Placeholders(fn_in.call.fmt)) + 1
        /\ \/ fn_out.self.lines = fn_in.self.lines
           \/ /\ Len(fn_out.self.lines)
                   = Len(fn_in.self.lines) + Len(fn_in.self.heading_lines) + 1
              /\ SubSeq(fn_out.self.lines, 1, Len(fn_out.self.lines) - 1)
                   = fn_in.self.lines \o fn_in.self.heading_lines

\* a template with two names the data lacks and none_val was formatted at
\* the third try
C28_Witness ==
    /\ Appended
    /\ ~IsNone(fn_in.call.none_val)
    /\ Cardinality(Placeholders(fn_in.call.fmt)) = 2
    /\ fn_out.iters = 3
    /\ Len(fn_out.self.lines) = Len(fn_in.self.lines) + Len(fn_in.self.heading_lines) + 1

-----------------------------------------------------------------------------
(* _resolve_workout_type as a function of its arguments, checked under
   SpecWorkoutType *)

\* event names a caller may pass
WorkoutNames ==
    { PyNone, PyStr("") }
    \cup { PyStr(n) : n \in
             { "Morning Jog", "Easy bike", "CYCLING intervals", "Long Ride", "Stride drills",
               "Tempo Run", "RUNNING club", "jogging", "Brunch", "Swim technique", "POOL session",
               "Swimming", "Walk the dog", "Hiking trip", "hike", "Rowing 2k", "Crown Heights",
               "Bike and Run", "Swim then walk", "Rowing after hike", "Jog to the pool",
               "Yoga", "Strength", "Tempo", "WALKING", "row", "Pool RUN", "walk and row" } }

\* workout types a caller may pass
WorkoutTypes == { PyNone, PyStr(""), PyStr("Swim"), PyStr("Yoga") }

\* _resolve_workout_type is applied
ResolveWorkoutType ==
    /\ fn_in = Unused
    /\ \E name \in WorkoutNames, workout_type \in WorkoutTypes :
        /\ fn_in' = [name |-> name, workout_type |-> workout_type]
        /\ fn_out' = _resolve_workout_type(name, workout_type)
    /\ UNCHANGED <<cfgvars, gwvars, hvars>>

\* the caller takes the type; the function keeps no state between calls
WorkoutTypeReturned ==
    /\ fn_in # Unused
    /\ fn_in' = Unused
    /\ fn_out' = Unused
    /\ UNCHANGED <<cfgvars, gwvars, hvars>>

NextWorkoutType == ResolveWorkoutType \/ WorkoutTypeReturned

SpecWorkoutType == InitGateway /\ [][NextWorkoutType]_vars

\* one of the words is a substring of text
HasAny(text, words) == \E w \in words : Contains(text, w)

\* the type the keyword groups give a lower-cased name, the groups tried in
\* the order Ride, Run, Swim, Walk, Row
TypeOfName(text) ==
    IF HasAny(text, {"bike", "cycle", "cycling", "ride"}) THEN "Ride"
    ELSE IF HasAny(text, {"run", "running", "jog", "jogging"}) THEN "Run"
    ELSE IF HasAny(text, {"swim", "swimming", "pool"}) THEN "Swim"
    ELSE IF HasAny(text, {"walk", "walking", "hike", "hiking"}) THEN "Walk"
    ELSE IF HasAny(text, {"row", "rowing"}) THEN "Row"
    ELSE "Ride"

\* C16: a given non-empty type is returned unchanged whatever the name;
\* otherwise the result is the first of Ride, Run, Swim, Walk, Row one of
\* whose keywords is a case-insensitive substring of the name, and 'Ride'
\* when no keyword matches or the name is absent.
C16_WorkoutTypeResolution ==
    fn_in # Unused =>
        fn_out = IF ~IsNone(fn_in.workout_type) /\ fn_in.workout_type.v # ""
                 THEN fn_in.workout_type
                 ELSE IF IsNone(fn_in.name) THEN PyStr("Ride")
                 ELSE PyStr(TypeOfName(Lower(fn_in.name.v)))

\* no type is given and the name, written in capitals, holds keywords of two
\* groups: the earlier group wins
C16_Witness ==
    /\ fn_in # Unused
    /\ fn_in.workout_type = PyStr("")
    /\ fn_in.name = PyStr("Pool RUN")
    /\ fn_out = PyStr("Run")


-----------------------------------------------------------------------------
(* Claims about the handlers' request sequences, checked under Spec *)

\* the i-th gateway call of the invocation returned a map that is no error
\* record
ReturnedMap(i) ==
    /\ calls[i].result.k = "return"
    /\ IsDict(calls[i].result.v)
    /\ ~IsErrorRecord(calls[i].result.v)

\* the intervals request returned a map with icu_intervals or icu_groups and
\* the activity lookup after it succeeded
IntervalsThenActivity ==
    /\ Returned("get_activity_intervals")
    /\ Len(calls) >= 2
    /\ ReturnedMap(1)
    /\ HasKey(calls[1].result.v, "icu_intervals") \/ HasKey(calls[1].result.v, "icu_groups")
    /\ ReturnedMap(2)

\* the text holds the label of each of the intervals that has one
HasEachLabel(text, intervals) ==
    \A i \in 1..Len(intervals) :
        (IsDict(intervals[i]) /\ IsStr(Get(intervals[i], "label")))
            => Contains(text, Get(intervals[i], "label").v)

\* C21: when the intervals request returns a map containing icu_intervals or
\* icu_groups and the subsequent activity lookup succeeds,
\* get_activity_intervals issues the activity lookup only after the intervals
\* response, and returns the formatted report that starts with 'Intervals
\* Analysis:' and contains each interval's label.
C21_IntervalsReport ==
    IntervalsThenActivity =>
        /\ Len(calls) = 2
        /\ calls[1].req.url = "/activity/" \o py_str(inv.args.activity_id) \o "/intervals"
        /\ calls[2].req.url = "/activity/" \o py_str(inv.args.activity_id)
        /\ ret.k = "return"
        /\ StartsWith(ret.v.v, "Intervals Analysis:")
        /\ HasEachLabel(ret.v.v, GetOr(calls[1].result.v, "icu_intervals", PyList(<<>>)).v)

\* the events request of get_races returned a non-empty list of events, each
\* a map whose category, if any, is a string
RacesListed ==
    /\ Returned("get_races")
    /\ Len(calls) >= 1
    /\ calls[1].result.k = "return"
    /\ IsList(calls[1].result.v)
    /\ calls[1].result.v.v # <<>>
    /\ \A i \in 1..Len(calls[1].result.v.v) :
         /\ IsDict(calls[1].result.v.v[i])
         /\ IsStr(GetOr(calls[1].result.v.v[i], "category", PyStr("")))

\* the event is of a race category
IsRace(event) == StartsWith(GetOr(event, "category", PyStr("")).v, "RACE_")

\* the shared_event_id of each race event that carries one, in event order
RECURSIVE SharedEventIds(_)
SharedEventIds(events) ==
    IF events = <<>> THEN <<>>
    ELSE (IF IsRace(events[1]) /\ Truthy(Get(events[1], "shared_event_id"))
          THEN <<Get(events[1], "shared_event_id")>> ELSE <<>>)
         \o SharedEventIds(Tail(events))

\* C22: get_races issues one events request and then, in event order,
\* exactly one shared-event request for each event whose category starts
\* with 'RACE_' and that carries a shared_event_id, each before that event is
\* formatted; events of other categories trigger no lookup and are not
\* listed, and the handler returns the 'Races:' report containing every race
\* event (the shared-event lookups returning maps).
C22_RacesLookups ==
    (RacesListed /\ \A i \in 2..Len(calls) : ReturnedMap(i)) =>
        LET events == calls[1].result.v.v
            ids == SharedEventIds(events)
        IN /\ Len(calls) = 1 + Len(ids)
           /\ \A i \in 1..Len(ids) :
                calls[i + 1].req.url = "/shared-event/" \o py_str(ids[i])
           /\ ret.k = "return"
           /\ StartsWith(ret.v.v, "Races:")
           /\ \A i \in 1..Len(events) :
                Contains(ret.v.v, "ID: " \o py_str(Get(events[i], "id"))) <=> IsRace(events[i])

\* C23: list_events defaults its date window: when start_date is omitted the
\* events request is sent with oldest = today, and when end_date is omitted
\* it is sent with newest = 7 days after the start date.
C23_ListEventsDefaultWindow ==
    (Returned("list_events") /\ Len(calls) >= 1) =>
        /\ IsNone(inv.args.start_date)
             => Get(calls[1].req.params, "oldest") = PyStr(strftime_ymd(Now))
        /\ (IsNone(inv.args.start_date) /\ IsNone(inv.args.end_date))
             => Get(calls[1].req.params, "newest") = PyStr(strftime_ymd(plus_days(Now, 7)))

\* the date create_workout was called with passes datetime.strptime(date,
\* "%Y-%m-%d")
WorkoutDateValid == strptime_ymd(inv.args.date.v).ok

\* the POST of create_workout was answered with a map containing id
WorkoutCreated ==
    /\ Len(calls) = 1
    /\ calls[1].result.k = "return"
    /\ IsDict(calls[1].result.v)
    /\ HasKey(calls[1].result.v, "id")

\* what create_workout does with a date, as the statement has it
WorkoutDateChecked ==
    /\ ~WorkoutDateValid
         => /\ ret = Return(PyStr("Error: Date must be in YYYY-MM-DD format."))
            /\ calls = <<>>
    /\ WorkoutDateValid
         => /\ Len(calls) = 1
            /\ calls[1].req.method = "POST"
            /\ WorkoutCreated
                 => ret = Return(PyStr(
                        "Successfully created workout '" \o py_str(inv.args.name) \o "' on "
                        \o py_str(inv.args.date) \o " (Event ID: "
                        \o py_str(Get(calls[1].result.v, "id")) \o ")"))

\* an athlete id is given and not empty, or none is given and one is configured
AthleteIdAvailable ==
    IF IsNone(inv.args.athlete_id) THEN ATHLETE_ID # "" ELSE inv.args.athlete_id.v # ""

\* C24 as stated: create_workout called with a date that is not a valid
\* YYYY-MM-DD date returns 'Error: Date must be in YYYY-MM-DD format.' and
\* sends no gateway request; with a valid date it sends exactly one POST and
\* returns the success message with the created event id when the response
\* is a map containing id.
C24_CreateWorkoutDate ==
    Returned("create_workout") => WorkoutDateChecked

\* C24, amended: the same for a call for which an athlete id is available;
\* without one the handler returns the missing-athlete-id error, whatever
\* the date, and sends nothing.
C24_CreateWorkoutDateWithAthlete ==
    Returned("create_workout") =>
        IF AthleteIdAvailable THEN WorkoutDateChecked
        ELSE ret = Return(PyStr(NoAthleteId)) /\ calls = <<>>

\* a call with an athlete id and a malformed date was refused
C24_Witness ==
    /\ Returned("create_workout")
    /\ AthleteIdAvailable
    /\ inv.args.date = PyStr("03/01/2024")
    /\ ret = Return(PyStr("Error: Date must be in YYYY-MM-DD format."))
    /\ calls = <<>>

\* the invocation was given an empty athlete_id while one is configured
EmptyAthleteOverride ==
    /\ pc = "done"
    /\ inv.tool \in AthleteTools
    /\ inv.args.athlete_id = PyStr("")
    /\ ATHLETE_ID # ""

\* the invocation was given an empty api_key and has made a gateway call
EmptyKeyOverride ==
    /\ pc = "done"
    /\ inv.args.api_key = PyStr("")
    /\ Len(calls) >= 1

\* C26: override fallback is uniform: in every handler and in the gateway,
\* passing an empty-string athlete_id or api_key override has the same
\* effect as omitting the override, i.e. the process-wide configured value is
\* used: the handler does not report a missing athlete id, its requests are
\* for the configured athlete, and they are sent with the configured key.
C26_EmptyOverrideFallsBack ==
    /\ EmptyAthleteOverride =>
         /\ ret # Return(PyStr(NoAthleteId))
         /\ Len(calls) >= 1
         /\ StartsWith(calls[1].req.url, "/athlete/" \o ATHLETE_ID)
    /\ EmptyKeyOverride =>
         \A i \in 1..Len(calls) :
             /\ Len(calls[i].sent) = 1
             /\ calls[i].sent[1].auth = <<"API_KEY", API_KEY>>

\* an invocation none of whose gateway calls produced an error record: each
\* returned the payload of a successful response
OnlyPayloads ==
    /\ pc = "done"
    /\ calls # <<>>
    /\ \A i \in 1..Len(calls) : calls[i].result.k = "return" /\ ~GatewayFailed(i)

\* C29: a handler reports an error only if the gateway produced an error
\* record: every successful 2xx payload returned by make_intervals_request,
\* whatever keys it contains, is processed as data and never turned into an
\* 'Error ...' result.
C29_PayloadsAreData ==
    OnlyPayloads => ~(ret.k = "return" /\ IsStr(ret.v) /\ StartsWith(ret.v.v, "Error "))

\* the requests of the invocation so far: those answered and the one awaited
Requests == [i \in 1..Len(calls) |-> calls[i].req]
                \o (IF pc = "awaiting" THEN <<pending>> ELSE <<>>)

\* the start or the end date of the invocation is not a YYYY-MM-DD date
RangeDateInvalid ==
    \/ ~strptime_ymd(inv.args.start_date.v).ok
    \/ ~strptime_ymd(inv.args.end_date.v).ok

\* the first request, the listing, was answered with a list holding event e
\* and request r is the DELETE of e
DeletesFromListing(r) ==
    /\ Len(calls) >= 1
    /\ calls[1].req.method = "GET"
    /\ calls[1].req.url
         = "/athlete/" \o py_str(athlete_id_or_default(inv.args.athlete_id)) \o "/events"
    /\ calls[1].result.k = "return"
    /\ ~GatewayFailed(1)
    /\ IsList(calls[1].result.v)
    /\ \E k \in 1..Len(calls[1].result.v.v) :
          /\ IsDict(calls[1].result.v.v[k])
          /\ r.url = calls[1].req.url \o "/" \o py_str(Get(calls[1].result.v.v[k], "id"))

\* C30: delete_events_by_date_range never issues a DELETE before its listing
\* request has returned successfully: with an invalid start or end date no
\* request at all is sent, with a failed listing no DELETE is sent, and
\* every DELETE that is sent targets the id of an event contained in the
\* listing response of the same invocation.
C30_DeleteAfterListing ==
    (pc # "idle" /\ inv.tool = "delete_events_by_date_range") =>
        /\ RangeDateInvalid => Requests = <<>>
        /\ (Len(calls) >= 1 /\ GatewayFailed(1)) => Len(Requests) = 1
        /\ \A i \in 1..Len(Requests) :
              Requests[i].method = "DELETE" => (i > 1 /\ DeletesFromListing(Requests[i]))

\* two listed events were deleted one after the other
C30_Witness ==
    /\ Returned("delete_events_by_date_range")
    /\ Len(calls) = 3
    /\ calls[1].result.v = PyList(<<EvWorkout, EvRaceShared>>)
    /\ calls[2].req.method = "DELETE" /\ calls[2].sent # <<>>
    /\ calls[3].req.method = "DELETE" /\ calls[3].sent # <<>>
    /\ calls[2].req.url # calls[3].req.url
=============================================================================
